---- MODULE Spec2Model ----
(***************************************************************************)
(* Echo: a character chat service (retrieval + bounded session history).   *)
(*                                                                         *)
(* The module holds four specifications over one set of variables:        *)
(*   SpecTrim   Session.trim_to_max_tokens applied to bounded sessions     *)
(*   SpecChunk  EmbeddingService.chunk_text, one loop iteration per step   *)
(*   SpecIndex  VectorStore rebuild / search / count requests              *)
(*   Spec       SessionStore and the chat / session request handlers       *)
(* Each specification leaves the variables of the other parts untouched.   *)
(*                                                                         *)
(* Requests are taken to run concurrently, interleaved at the calls they   *)
(* make on the shared stores (the session files, the vector collection):  *)
(* the services hold no lock, the stores live on disk and are shared by    *)
(* every worker serving app.api.app:app.                                   *)
(***************************************************************************)
EXTENDS Integers, Sequences, FiniteSets, TLC

VARIABLES
    \* ---- SpecTrim
    tSession,      \* the Session under trim (session_id, created_at, messages)
    tMaxTokens,    \* the max_tokens argument
    tHist,         \* the Session as it was when each call so far started
    \* ---- SpecChunk
    cText,         \* the text argument of chunk_text
    cSize,         \* self.chunk_size
    cOverlap,      \* self.chunk_overlap
    cStart,        \* local start
    cChunkId,      \* local chunk_id
    cChunks,       \* local chunks
    cPc,           \* "call" before the call, "loop" in the while loop, "done" returned
    \* ---- SpecIndex
    knowledge,     \* the knowledge directory: file name -> text, or NoFile
    collExists,    \* the ChromaDB collection "knowledge_base" exists
    collDocs,      \* the documents stored in the collection
    appState,      \* "boot" while lifespan has not yielded, then "serving"
    rPc,           \* position of the index_knowledge_files call in progress
    rChunks,       \* its local all_chunks
    rFiles,        \* its local txt_files
    rPre,          \* the documents stored when that call started
    rOutcome,      \* how the latest index_knowledge_files call ended
    qObs,          \* per query request: what the latest completed query saw
    \* ---- Spec
    files,         \* the sessions directory: path -> file
    now,           \* the clock datetime.utcnow() reads
    pPc,           \* per request slot: position of its handler
    pOp,           \* the handler it runs
    pId,           \* the session id it operates on
    pSess,         \* the handler's Session object
    pPos,          \* save: pieces of the text already written to the file
    pUnlinked,     \* save: the open file was unlinked meanwhile
    pList,         \* list_all: files still to read, summaries so far
    pRes,          \* the handler's result
    pShared,       \* another request operated on the same session id meanwhile
    pStale,        \* another request saved the session after this one obtained it
    lastSave,      \* per session id: the latest completed save
    \* ---- SpecSearch
    sDocs,         \* the entries the collection holds
    sQuery,        \* search argument query
    sTopK,         \* search argument top_k (None or a number)
    sMinSim,       \* search argument min_similarity (None or a number, hundredths)
    sResult,       \* what search returned
    sPc,           \* "call" before the call, "done" after
    \* ---- SpecGetOrCreate
    gFiles,        \* the session files on disk
    gArg,          \* get_or_create argument session_id (NoId: None)
    gNow,          \* the clock
    gRet,          \* the Session get_or_create returned
    gPc,           \* "call" before the call, "done" after
    \* ---- SpecHandler
    hCharacter,    \* the character profile loaded at startup
    hLoaded,       \* the session get_or_create returned
    hMessage,      \* request.message
    hResults,      \* context_results, what retrieve_context returned
    hNow,          \* the clock
    hSession,      \* the session object as the handler changes it
    hPrompt,       \* system_prompt, the text build_prompt returned
    hHistory,      \* history_messages
    hAdd,          \* the latest add_message call: session before, arguments, result
    hLlm,          \* llm_messages, the list given to llm_service.chat
    hReply,        \* response_text
    hPc,           \* the handler's position
    \* ---- SpecDim
    dModelDim,     \* length of the vectors the configured embedding model gives
    dStoredDim,    \* length of the vectors in the collection, 0 when it is empty
    dQuery,        \* search argument query
    dTopK,         \* search argument top_k
    dEmbedding,    \* query_embedding
    dHanded,       \* collection.query has been called with query_embedding
    dOutcome,      \* how the search call ended
    dPc            \* position in search

trimVars == <<tSession, tMaxTokens, tHist>>
chunkVars == <<cText, cSize, cOverlap, cStart, cChunkId, cChunks, cPc>>
storeVars == <<files, now, pPc, pOp, pId, pSess, pPos, pUnlinked, pList, pRes,
               pShared, pStale, lastSave>>
searchVars == <<sDocs, sQuery, sTopK, sMinSim, sResult, sPc>>
gocVars == <<gFiles, gArg, gNow, gRet, gPc>>
dimVars == <<dModelDim, dStoredDim, dQuery, dTopK, dEmbedding, dHanded, dOutcome, dPc>>
handlerVars == <<hCharacter, hLoaded, hMessage, hResults, hNow, hSession, hPrompt,
                 hHistory, hAdd, hLlm, hReply, hPc>>
indexVars == <<knowledge, collExists, collDocs, appState, rPc, rChunks, rFiles,
               rPre, rOutcome, qObs>>

(***************************************************************************)
(* Bounds of the model.                                                    *)
(***************************************************************************)
MaxMsgs == 3            \* messages in a session drawn by SpecTrim
MaxContentLen == 4      \* characters in a message content drawn by SpecTrim
MaxTokenArg == 2        \* max_tokens arguments drawn by SpecTrim
MaxTrimCalls == 2       \* consecutive trim calls
MaxTextLen == 4         \* characters in a text drawn by SpecChunk
MaxChunkSize == 4       \* chunk_size values drawn by SpecChunk
MaxIter == 6            \* loop iterations of chunk_text followed by SpecChunk
KChunkSize == 2         \* config.embedding.chunk_size used by SpecIndex
KChunkOverlap == 1      \* config.embedding.chunk_overlap used by SpecIndex
MaxTopK == 5             \* top_k values drawn by SpecSearch
MaxClock == 6           \* clock readings followed by Spec
TicksPerSecond == 2      \* clock readings within one second
MaxDim == 3             \* vector lengths drawn by SpecDim
MaxPrior == 22          \* messages of the session a SpecHandler request starts with
MaxResults == 2         \* context results a SpecHandler request retrieves

(***************************************************************************)
(* Program constants.                                                      *)
(***************************************************************************)
DefaultMaxTokens == 8000     \* trim_to_max_tokens(max_tokens=8000)
CharsPerToken == 4           \* max_chars = max_tokens * 4
ConfigTopK == 3              \* RAGConfig.top_k
BufferSize == 8192      \* io.DEFAULT_BUFFER_SIZE of the file save() opens
ConfigMinSimilarity == 60    \* RAGConfig.min_similarity = 0.6, in hundredths
MaxHistory == 20             \* chat: get_llm_messages(max_history=20)

Roles == {"user", "assistant"}

(***************************************************************************)
(* Strings.  A message content is a string; the code reads its length and  *)
(* compares it for equality, so a content is its text tag and its length.  *)
(***************************************************************************)
Str(tag, n) == [txt |-> tag, len |-> n]
StrLen(s) == s.len

(***************************************************************************)
(* app/models/session.py                                                   *)
(***************************************************************************)
ChatMessage(role, content, timestamp) ==
    [role |-> role, content |-> content, timestamp |-> timestamp]

Session(session_id, created_at, messages) ==
    [session_id |-> session_id, created_at |-> created_at, messages |-> messages]

RECURSIVE SumChars(_)
\* sum(len(m.content) for m in self.messages)
SumChars(msgs) ==
    IF msgs = <<>> THEN 0
    ELSE StrLen(Head(msgs).content) + SumChars(Tail(msgs))

RECURSIVE EvictOldest(_, _, _)
\* while self.messages and total_chars > max_chars: pop(0); total -= len(removed)
EvictOldest(msgs, total_chars, max_chars) ==
    IF msgs # <<>> /\ total_chars > max_chars
    THEN EvictOldest(Tail(msgs), total_chars - StrLen(Head(msgs).content), max_chars)
    ELSE msgs

RECURSIVE EvictKeepLast(_, _, _)
EvictKeepLast(msgs, total_chars, max_chars) ==
    IF Len(msgs) > 1 /\ total_chars > max_chars
    THEN EvictKeepLast(Tail(msgs), total_chars - StrLen(Head(msgs).content), max_chars)
    ELSE msgs

RECURSIVE EvictNewest(_, _, _)
EvictNewest(msgs, total_chars, max_chars) ==
    IF msgs # <<>> /\ total_chars > max_chars
    THEN EvictNewest(SubSeq(msgs, 1, Len(msgs) - 1),
                     total_chars - StrLen(msgs[Len(msgs)].content), max_chars)
    ELSE msgs

\* Mutant: the loop keeps the newest message whatever its size.
trim_keep_last(msgs, max_tokens) ==
    LET total_chars == SumChars(msgs)
        max_chars == max_tokens * CharsPerToken
    IN  IF total_chars <= max_chars THEN msgs
        ELSE EvictKeepLast(msgs, total_chars, max_chars)

\* Mutant: pop() instead of pop(0), the newest message is evicted first.
trim_evict_newest(msgs, max_tokens) ==
    LET total_chars == SumChars(msgs)
        max_chars == max_tokens * CharsPerToken
    IN  IF total_chars <= max_chars THEN msgs
        ELSE EvictNewest(msgs, total_chars, max_chars)

\* Mutant: "if" instead of "while", one message is evicted per call.
trim_pop_once(msgs, max_tokens) ==
    LET total_chars == SumChars(msgs)
        max_chars == max_tokens * CharsPerToken
    IN  IF total_chars <= max_chars THEN msgs ELSE Tail(msgs)

\* Session.trim_to_max_tokens: the messages left in the session.
trim_to_max_tokens(msgs, max_tokens) ==
    LET total_chars == SumChars(msgs)
        max_chars == max_tokens * CharsPerToken
    IN  IF total_chars <= max_chars THEN msgs
        ELSE EvictOldest(msgs, total_chars, max_chars)

(***************************************************************************)
(* SpecTrim: trim_to_max_tokens on sessions drawn from bounded sets.       *)
(***************************************************************************)
\* Message lists of n messages; the i-th message carries timestamp i.
TrimMsgLists(n) ==
    { [i \in 1..n |-> ChatMessage(rc[i][1], Str("m", rc[i][2]), i)] :
        rc \in [1..n -> Roles \X (0..MaxContentLen)] }

\* The 40,000 character session of the spec's scenario: 4 messages of 10,000.
ScenarioMsgs ==
    [i \in 1..4 |-> ChatMessage(IF i % 2 = 1 THEN "user" ELSE "assistant",
                                Str("m", 10000), i)]

TrimInit ==
    /\ \/ /\ tMaxTokens \in 0..MaxTokenArg
          /\ \E n \in 0..MaxMsgs : \E msgs \in TrimMsgLists(n) :
                tSession = Session("s1", 0, msgs)
       \/ /\ tMaxTokens = DefaultMaxTokens
          /\ tSession = Session("s1", 0, ScenarioMsgs)
    /\ tHist = <<>>

TrimIdle ==
    /\ tSession = Session("s1", 0, <<>>)
    /\ tMaxTokens = 0
    /\ tHist = <<>>

\* Number of trim_to_max_tokens calls made, and the session before the latest.
tCalls == Len(tHist)
tBefore == tHist[Len(tHist)]

\* session.trim_to_max_tokens(tMaxTokens)
TrimCall ==
    /\ tCalls < MaxTrimCalls
    /\ tHist' = Append(tHist, tSession)
    /\ tSession' = [tSession EXCEPT !.messages = trim_to_max_tokens(@, tMaxTokens)]
    /\ UNCHANGED tMaxTokens

(***************************************************************************)
(* app/services/embeddings.py                                              *)
(***************************************************************************)
Min(a, b) == IF a < b THEN a ELSE b
Max(a, b) == IF a > b THEN a ELSE b

\* A slice bound as Python clamps it: negative counts from the end.
SliceIndex(i, n) == IF i < 0 THEN Max(i + n, 0) ELSE Min(i, n)

\* text[start:end]
PySlice(text, start, end) ==
    LET lo == SliceIndex(start, Len(text))
        hi == SliceIndex(end, Len(text))
    IN  IF lo < hi THEN SubSeq(text, lo + 1, hi) ELSE <<>>

\* One chunk dictionary: the slice and its metadata (end is start + chunk_size).
Chunk(text, source, chunk_id, start, chunk_size) ==
    [text |-> PySlice(text, start, start + chunk_size),
     metadata |-> [source |-> source, chunk_id |-> chunk_id,
                   start |-> start, end |-> start + chunk_size]]

RECURSIVE ChunkLoop(_, _, _, _, _, _, _)
\* The while loop of chunk_text from (start, chunk_id, chunks) on.
ChunkLoop(text, source, chunk_size, chunk_overlap, start, chunk_id, chunks) ==
    IF start < Len(text)
    THEN ChunkLoop(text, source, chunk_size, chunk_overlap,
                   (start + chunk_size) - chunk_overlap, chunk_id + 1,
                   Append(chunks, Chunk(text, source, chunk_id, start, chunk_size)))
    ELSE chunks

\* EmbeddingService.chunk_text(text, metadata={"source": source}); it returns
\* only when chunk_overlap < chunk_size or the text is empty.
chunk_text(text, source, chunk_size, chunk_overlap) ==
    ChunkLoop(text, source, chunk_size, chunk_overlap, 0, 0, <<>>)

(***************************************************************************)
(* SpecChunk: chunk_text followed one loop iteration at a time, for every  *)
(* integer configuration EmbeddingConfig accepts within the bounds.        *)
(***************************************************************************)
Chars == {"a", "b"}

Texts == UNION { [1..n -> Chars] : n \in 0..MaxTextLen }

ChunkInit ==
    /\ cText \in Texts
    /\ cSize \in 1..MaxChunkSize
    /\ cOverlap \in 0..(MaxChunkSize + 1)
    /\ cStart = 0
    /\ cChunkId = 0
    /\ cChunks = <<>>
    /\ cPc = "call"

ChunkIdle ==
    /\ cText = <<>>
    /\ cSize = 1
    /\ cOverlap = 0
    /\ cStart = 0
    /\ cChunkId = 0
    /\ cChunks = <<>>
    /\ cPc = "call"

\* chunks = []; start = 0; chunk_id = 0
ChunkCall ==
    /\ cPc = "call"
    /\ cPc' = "loop"
    /\ cStart' = 0
    /\ cChunkId' = 0
    /\ cChunks' = <<>>
    /\ UNCHANGED <<cText, cSize, cOverlap>>

\* An iteration that leaves start where it was.
ChunkIterate_no_advance ==
    /\ cPc = "loop"
    /\ cStart < Len(cText)
    /\ cChunkId < MaxIter
    /\ cChunks' = Append(cChunks, Chunk(cText, "bio.txt", cChunkId, cStart, cSize))
    /\ cStart' = cStart
    /\ cChunkId' = cChunkId + 1
    /\ UNCHANGED <<cText, cSize, cOverlap, cPc>>

\* One iteration of: while start < len(text)
ChunkIterate ==
    /\ cPc = "loop"
    /\ cStart < Len(cText)
    /\ cChunkId < MaxIter
    /\ cChunks' = Append(cChunks, Chunk(cText, "bio.txt", cChunkId, cStart, cSize))
    /\ cStart' = (cStart + cSize) - cOverlap
    /\ cChunkId' = cChunkId + 1
    /\ UNCHANGED <<cText, cSize, cOverlap, cPc>>

\* return chunks
ChunkReturn ==
    /\ cPc = "loop"
    /\ ~(cStart < Len(cText))
    /\ cPc' = "done"
    /\ UNCHANGED <<cText, cSize, cOverlap, cStart, cChunkId, cChunks>>

(***************************************************************************)
(* app/services/vector_store.py                                            *)
(***************************************************************************)
\* A directory entry: no such file, or a file holding text.
NoFile == [exists |-> FALSE, text |-> <<>>]
File(text) == [exists |-> TRUE, text |-> text]

NoObs == [op |-> "none"]

ProfileFile == "profile.txt"
KFiles == {"bio.txt", "lore.txt"}
KTexts == { <<"a", "b", "a">>, <<"b", "a">> }
ProfileText == <<"a", "a">>
Queries == { <<"a", "b">>, <<"b">> }

\* An optional argument: absent (None) or a value.
Absent == [given |-> FALSE, val |-> 0]
Given(v) == [given |-> TRUE, val |-> v]
\* arg or default: None and 0 are both falsy.
PyOr(arg, default) == IF arg.given /\ arg.val # 0 THEN arg.val ELSE default

\* All orders in which glob may list a set of files.
Orders(S) == { f \in [1..Cardinality(S) -> S] : \A x \in S : \E i \in DOMAIN f : f[i] = x }

\* knowledge_dir.glob("*.txt") minus the profile path.
TxtFiles(dir) == { f \in DOMAIN dir : dir[f] # NoFile /\ f # ProfileFile }

RECURSIVE AllChunks(_, _)
\* for txt_file in txt_files: all_chunks.extend(chunk_text(text, {"source": name}))
AllChunks(dir, txt_files) ==
    IF txt_files = <<>> THEN <<>>
    ELSE chunk_text(dir[Head(txt_files)].text, Head(txt_files), KChunkSize, KChunkOverlap)
            \o AllChunks(dir, Tail(txt_files))

\* The embedding model, a function of the text.
Embed(text) == <<"vec", text>>

\* f"{source}_chunk_{chunk_id}"
DocId(metadata) == <<metadata.source, "_chunk_", metadata.chunk_id>>

\* One entry of collection.add(documents, embeddings, metadatas, ids).
Doc(chunk) ==
    [id |-> DocId(chunk.metadata), document |-> chunk.text,
     metadata |-> chunk.metadata, embedding |-> Embed(chunk.text)]

\* Only the chunks of the first file are handed on.
DocsOf_first_file(chunks) ==
    { Doc(chunks[i]) :
        i \in { j \in DOMAIN chunks :
                   chunks[j].metadata.source = chunks[1].metadata.source } }

\* The entries add_documents hands to collection.add.
DocsOf(chunks) == { Doc(chunks[i]) : i \in DOMAIN chunks }

\* 1 - cosine distance of two embeddings, in hundredths.
Similarity(qe, de) ==
    IF qe = de THEN 100
    ELSE IF Head(qe[2]) = Head(de[2]) THEN 82 ELSE 55

RECURSIVE Nearest(_, _, _)
\* collection.query(query_embeddings=[qe], n_results=n): the n nearest, nearest first.
Nearest(docs, qe, n) ==
    IF docs = {} \/ n <= 0 THEN <<>>
    ELSE LET best == CHOOSE d \in docs :
                        \A e \in docs : Similarity(qe, d.embedding) >= Similarity(qe, e.embedding)
         IN  <<best>> \o Nearest(docs \ {best}, qe, n - 1)

\* The result loop without the threshold test.
FilterResults_keep_all(hits, qe, min_similarity) ==
    [i \in DOMAIN hits |->
        [text |-> hits[i].document, metadata |-> hits[i].metadata,
         similarity |-> Similarity(qe, hits[i].embedding)]]

RECURSIVE FilterResults(_, _, _)
\* the loop over results["documents"][0]: keep similarity >= min_similarity
FilterResults(hits, qe, min_similarity) ==
    IF hits = <<>> THEN <<>>
    ELSE LET d == Head(hits)
             sim == Similarity(qe, d.embedding)
             rest == FilterResults(Tail(hits), qe, min_similarity)
         IN  IF sim >= min_similarity
             THEN <<[text |-> d.document, metadata |-> d.metadata, similarity |-> sim]>> \o rest
             ELSE rest

\* VectorStore.search on a collection holding docs.
search(docs, query, top_k, min_similarity) ==
    LET k == PyOr(top_k, ConfigTopK)
        ms == PyOr(min_similarity, ConfigMinSimilarity)
        qe == Embed(query)
    IN  FilterResults(Nearest(docs, qe, k), qe, ms)

\* VectorStore.count on a collection holding docs.
count(docs) == Cardinality(docs)

(***************************************************************************)
(* SpecSearch: one search call, for every collection content, query and    *)
(* pair of optional arguments within the bounds.                           *)
(***************************************************************************)
\* The entries a collection may hold: the chunks of one indexed file.
SearchDocs == DocsOf(chunk_text(<<"a", "b", "a", "a", "b">>, "bio.txt",
                                KChunkSize, KChunkOverlap))

\* min_similarity values a caller may pass, in hundredths.
MinSims == {0, 55, 60, 82, 100}

SearchInit ==
    /\ sDocs \in SUBSET SearchDocs
    /\ sQuery \in Queries
    /\ sTopK \in {Absent} \cup { Given(k) : k \in 1..MaxTopK }
    /\ sMinSim \in {Absent} \cup { Given(m) : m \in MinSims }
    /\ sResult = <<>>
    /\ sPc = "call"

SearchIdle ==
    /\ sDocs = {}
    /\ sQuery = <<>>
    /\ sTopK = Absent
    /\ sMinSim = Absent
    /\ sResult = <<>>
    /\ sPc = "call"

\* vector_store.search(query, top_k, min_similarity)
SearchCall ==
    /\ sPc = "call"
    /\ sResult' = search(sDocs, sQuery, sTopK, sMinSim)
    /\ sPc' = "done"
    /\ UNCHANGED <<sDocs, sQuery, sTopK, sMinSim>>

(***************************************************************************)
(* SpecIndex: the lifespan start-up, rebuild requests and query requests.  *)
(***************************************************************************)
QueryProcs == {"q1"}

IndexInit ==
    /\ knowledge \in { d \in [KFiles \cup {ProfileFile} ->
                                  { File(t) : t \in KTexts \cup {ProfileText} } \cup {NoFile}] :
                          /\ d[ProfileFile] = File(ProfileText)
                          /\ \A f \in KFiles : d[f] # File(ProfileText) }
    /\ collExists = TRUE
    /\ collDocs = {}
    /\ appState = "boot"
    /\ rPc = "idle"
    /\ rChunks = <<>>
    /\ rFiles = <<>>
    /\ rPre = {}
    /\ rOutcome = [status |-> "none"]
    /\ qObs = [q \in QueryProcs |-> NoObs]

IndexIdle ==
    /\ knowledge = [f \in KFiles \cup {ProfileFile} |->
                        IF f = ProfileFile THEN File(ProfileText) ELSE NoFile]
    /\ collExists = TRUE
    /\ collDocs = {}
    /\ appState = "boot"
    /\ rPc = "idle"
    /\ rChunks = <<>>
    /\ rFiles = <<>>
    /\ rPre = {}
    /\ rOutcome = [status |-> "none"]
    /\ qObs = [q \in QueryProcs |-> NoObs]

\* A knowledge file is written, replaced or removed on disk.
EditKnowledge ==
    /\ \E f \in KFiles : \E e \in { File(t) : t \in KTexts } \cup {NoFile} :
          /\ knowledge[f] # e
          /\ knowledge' = [knowledge EXCEPT ![f] = e]
    /\ UNCHANGED <<collExists, collDocs, appState, rPc, rChunks, rFiles, rPre,
                   rOutcome, qObs>>

\* index_knowledge_files up to "Clear existing data": list, read and chunk the files.
BeginIndex ==
    /\ \E txt_files \in Orders(TxtFiles(knowledge)) :
          /\ rFiles' = txt_files
          /\ rChunks' = AllChunks(knowledge, txt_files)
    /\ rPre' = collDocs
    /\ rPc' = "delete"

\* lifespan: if vector_store.count() == 0: index_knowledge_files(), else serve.
Lifespan ==
    /\ appState = "boot"
    /\ rPc = "idle"
    /\ collExists
    /\ IF count(collDocs) = 0
       THEN BeginIndex /\ UNCHANGED appState
       ELSE appState' = "serving" /\ UNCHANGED <<rPc, rChunks, rFiles, rPre>>
    /\ UNCHANGED <<knowledge, collExists, collDocs, rOutcome, qObs>>

\* POST /api/knowledge/rebuild
RebuildKnowledge ==
    /\ appState = "serving"
    /\ rPc = "idle"
    /\ BeginIndex
    /\ UNCHANGED <<knowledge, collExists, collDocs, appState, rOutcome, qObs>>

\* A delete_collection that leaves the entries in place.
DeleteCollection_keeps_docs ==
    /\ rPc = "delete"
    /\ collExists' = FALSE
    /\ collDocs' = collDocs
    /\ rPc' = "create"
    /\ UNCHANGED <<knowledge, appState, rChunks, rFiles, rPre, rOutcome, qObs>>

\* delete_all: self.client.delete_collection(...)
DeleteCollection ==
    /\ rPc = "delete"
    /\ collExists' = FALSE
    /\ collDocs' = {}
    /\ rPc' = "create"
    /\ UNCHANGED <<knowledge, appState, rChunks, rFiles, rPre, rOutcome, qObs>>

\* delete_all: self.collection = self.client.create_collection(...)
CreateCollection ==
    /\ rPc = "create"
    /\ collExists' = TRUE
    /\ rPc' = "add"
    /\ UNCHANGED <<knowledge, collDocs, appState, rChunks, rFiles, rPre, rOutcome, qObs>>

\* add_documents: if not chunks: return; else embeddings = embed(texts)
EmbedChunks ==
    /\ rPc = "add"
    /\ rPc' = IF rChunks = <<>> THEN "return" ELSE "insert"
    /\ UNCHANGED <<knowledge, collExists, collDocs, appState, rChunks, rFiles, rPre,
                   rOutcome, qObs>>

\* add_documents: self.collection.add(...)
InsertChunks ==
    /\ rPc = "insert"
    /\ collDocs' = collDocs \cup DocsOf(rChunks)
    /\ rPc' = "return"
    /\ UNCHANGED <<knowledge, collExists, appState, rChunks, rFiles, rPre, rOutcome, qObs>>

\* embed(texts) or collection.add(...) raises: index_knowledge_files ends there.
AddDocumentsFails ==
    /\ \/ rPc = "add" /\ rChunks # <<>>
       \/ rPc = "insert"
    /\ rPc' = "done"
    /\ rOutcome' = [status |-> "failed"]
    /\ UNCHANGED <<knowledge, collExists, collDocs, appState, rChunks, rFiles, rPre, qObs>>

\* index_knowledge_files returns its statistics.
IndexReturn ==
    /\ rPc = "return"
    /\ rPc' = "done"
    /\ rOutcome' = [status |-> "ok", files_indexed |-> Len(rFiles),
                    total_chunks |-> Len(rChunks), sources |-> rFiles]
    /\ UNCHANGED <<knowledge, collExists, collDocs, appState, rChunks, rFiles, rPre, qObs>>

\* The caller takes the outcome: the rebuild request is answered (200, or 500
\* by the exception handler); lifespan yields, or the start-up fails and the
\* application is started again.
IndexDone ==
    /\ rPc = "done"
    /\ rPc' = "idle"
    /\ appState' = IF rOutcome.status = "ok" THEN "serving" ELSE appState
    /\ rOutcome' = [status |-> "none"]
    /\ rChunks' = <<>>
    /\ rFiles' = <<>>
    /\ rPre' = {}
    /\ UNCHANGED <<knowledge, collExists, collDocs, qObs>>

\* What a query request records: its answer, and whether a rebuild was under way.
InRebuild == rPc \in {"delete", "create", "add", "insert", "return"}

Observation(op, query, status, result) ==
    [op |-> op, query |-> query, status |-> status, result |-> result]

\* No answer of a query request is waiting to be delivered.  Delivery touches
\* no shared state, so it is followed before the next step of any request.
NoAnswerPending == \A q \in DOMAIN qObs : qObs[q] = NoObs

\* GET /api/health: vector_store.count()
QueryCount(q) ==
    /\ appState = "serving"
    /\ qObs[q] = NoObs
    /\ qObs' = [qObs EXCEPT ![q] =
                  IF collExists
                  THEN Observation("count", <<>>, "ok", count(collDocs))
                  ELSE Observation("count", <<>>, "error", 0)]
    /\ UNCHANGED <<knowledge, collExists, collDocs, appState, rPc, rChunks, rFiles,
                   rPre, rOutcome>>

\* rag_service.retrieve_context(message): vector_store.search(query, top_k=None)
QuerySearch(q) ==
    /\ appState = "serving"
    /\ qObs[q] = NoObs
    /\ \E query \in Queries :
          qObs' = [qObs EXCEPT ![q] =
                     IF collExists
                     THEN Observation("search", query, "ok",
                                      search(collDocs, query, Absent, Absent))
                     ELSE Observation("search", query, "error", <<>>)]
    /\ UNCHANGED <<knowledge, collExists, collDocs, appState, rPc, rChunks, rFiles,
                   rPre, rOutcome>>

\* The query request is answered.
QueryDone(q) ==
    /\ qObs[q] # NoObs
    /\ qObs' = [qObs EXCEPT ![q] = NoObs]
    /\ UNCHANGED <<knowledge, collExists, collDocs, appState, rPc, rChunks, rFiles,
                   rPre, rOutcome>>

(***************************************************************************)
(* app/models/session.py (continued) and app/services/sessions.py          *)
(***************************************************************************)
NoId == "none"                          \* session_id None (or ""): falsy
SessionIds == {"s1", "s2"}              \* the values uuid4() may return
NoSession == Session(NoId, 0, <<>>)
NoResult == [status |-> "none"]
NoListing == [todo |-> {}, acc |-> <<>>]

\* ChatMessage.to_dict / ChatMessage.from_dict
MessageToDict(m) == [role |-> m.role, content |-> m.content, timestamp |-> m.timestamp]
MessageFromDict(d) == ChatMessage(d.role, d.content, d.timestamp)

\* Session.to_dict
to_dict(s) ==
    [session_id |-> s.session_id, created_at |-> s.created_at,
     messages |-> [i \in DOMAIN s.messages |-> MessageToDict(s.messages[i])]]

\* An exception leaves the call in place of a value.
Raised(kind) == [error |-> kind]
IsRaised(v) == "error" \in DOMAIN v

\* data.get(key, default)
DictGet(d, key, default) == IF key \in DOMAIN d THEN d[key] ELSE default

\* from_dict rebuilding the messages in reverse order.
from_dict_reversed(d) ==
    Session(d.session_id, d.created_at,
            [i \in DOMAIN d.messages |->
                MessageFromDict(d.messages[Len(d.messages) + 1 - i])])

\* Session.from_dict: data["session_id"], data["created_at"] (KeyError when
\* missing), data.get("messages", [])
from_dict(d) ==
    IF ~({"session_id", "created_at"} \subseteq DOMAIN d)
    THEN Raised("KeyError")
    ELSE LET messages == DictGet(d, "messages", <<>>) IN
         Session(d.session_id, d.created_at,
                 [i \in DOMAIN messages |-> MessageFromDict(messages[i])])

\* add_message putting the new message in front.
add_message_in_front(s, role, content, t) ==
    [s EXCEPT !.messages = <<ChatMessage(role, content, t)>> \o @]

\* Session.add_message(role, content) at clock reading t
add_message(s, role, content, t) ==
    [s EXCEPT !.messages = Append(@, ChatMessage(role, content, t))]

\* get_llm_messages returning the whole history.
get_llm_messages_all(s, max_history) ==
    [i \in DOMAIN s.messages |-> [role |-> s.messages[i].role,
                                  content |-> s.messages[i].content]]

\* Session.get_llm_messages(max_history): messages[-max_history:] as LLM messages
get_llm_messages(s, max_history) ==
    LET msgs == IF max_history # 0
                THEN PySlice(s.messages, 0 - max_history, Len(s.messages))
                ELSE s.messages
    IN  [i \in DOMAIN msgs |-> [role |-> msgs[i].role, content |-> msgs[i].content]]

(***************************************************************************)
(* A session file is the text json.dump wrote, kept as a sequence of       *)
(* pieces: the opening with session_id and created_at, one piece per       *)
(* message, the closing.  A write in progress leaves a prefix of them.     *)
(***************************************************************************)
JsonHead(d) == [tok |-> "head", session_id |-> d.session_id, created_at |-> d.created_at]
JsonMsg(m) == [tok |-> "msg", role |-> m.role, content |-> m.content,
               timestamp |-> m.timestamp]
JsonEnd == [tok |-> "end"]
\* The text of a whole JSON object with the given fields, not written by save.
JsonObject(d) == [tok |-> "object", fields |-> d]
Nul == [tok |-> "nul"]

\* json.dump(d, f, indent=2): the text written
JsonDump(d) ==
    <<JsonHead(d)>> \o [i \in DOMAIN d.messages |-> JsonMsg(d.messages[i])] \o <<JsonEnd>>

\* json.load accepts the text
JsonValid(text) ==
    \/ /\ Len(text) >= 2
       /\ text[1].tok = "head"
       /\ text[Len(text)].tok = "end"
       /\ \A i \in 2..(Len(text) - 1) : text[i].tok = "msg"
    \/ Len(text) = 1 /\ text[1].tok = "object"

\* json.load(f) of an accepted text
JsonLoad(text) ==
    IF text[1].tok = "object" THEN text[1].fields
    ELSE
    [session_id |-> text[1].session_id, created_at |-> text[1].created_at,
     messages |-> [i \in 1..(Len(text) - 2) |->
                      [role |-> text[i + 1].role, content |-> text[i + 1].content,
                       timestamp |-> text[i + 1].timestamp]]]

\* The file after a write of data at offset pos: what was there beyond the
\* written range stays, a gap before it reads as Nul.  Offsets count pieces.
WriteAt(text, pos, data) ==
    [i \in 1..Max(Len(text), pos + Len(data)) |->
        IF i > pos /\ i <= pos + Len(data) THEN data[i - pos]
        ELSE IF i <= Len(text) THEN text[i] ELSE Nul]

\* The text save() writes for a session.
SavedText(s) == JsonDump(to_dict(s))

\* datetime.utcnow().isoformat() + "Z" of clock reading t: the seconds, then
\* the fraction of the second unless it is 0 ("...T10:00:00Z",
\* "...T10:00:00.500000Z").  The text is one-to-one, so created_at and
\* timestamp hold the clock reading; list_all's sort compares the texts.
isoformat(t) == [sec |-> t \div TicksPerSecond, frac |-> t % TicksPerSecond]

\* a >= b for two isoformat texts as Python compares strings: the seconds
\* have a fixed width; after them "Z" sorts above "." and the digits.
IsoGE(a, b) ==
    \/ a.sec > b.sec
    \/ a.sec = b.sec /\ (a.frac = 0 \/ (b.frac # 0 /\ a.frac >= b.frac))

RECURSIVE InsertNewestFirst(_, _)
\* Position of x in a list already sorted by created_at descending (stable).
InsertNewestFirst(sorted, x) ==
    IF sorted = <<>> THEN <<x>>
    ELSE IF IsoGE(isoformat(Head(sorted).created_at), isoformat(x.created_at))
         THEN <<Head(sorted)>> \o InsertNewestFirst(Tail(sorted), x)
         ELSE <<x>> \o sorted

RECURSIVE SortNewestFirst(_)
\* sessions.sort(key=created_at, reverse=True)
SortNewestFirst(acc) ==
    IF acc = <<>> THEN <<>>
    ELSE InsertNewestFirst(SortNewestFirst(SubSeq(acc, 1, Len(acc) - 1)), acc[Len(acc)])

(***************************************************************************)
(* Spec: request handlers on the session store.  Each request slot runs    *)
(* one handler at a time; handlers interleave at their file operations.    *)
(***************************************************************************)
Procs == {"p1", "p2"}
UserMessages == { Str("hi", 2), Str("long", 16000) }
Replies == { Str("reply", 5) }
Paths == {"s1.json", "s2.json"}

\* A path that does not depend on the session id.
get_session_path_shared(session_id) == "s1.json"

\* SessionStore._get_session_path: sessions_dir / f"{session_id}.json"
get_session_path(session_id) ==
    CASE session_id = "s1" -> "s1.json"
      [] session_id = "s2" -> "s2.json"

NoSave == [saved |-> FALSE, session |-> NoSession, clean |-> FALSE, stale |-> FALSE,
           unlinked |-> FALSE, deleted |-> FALSE]

\* A session an earlier run of the service persisted.
SeedSession ==
    Session("s1", 0, <<ChatMessage("user", Str("hi", 2), 0),
                       ChatMessage("assistant", Str("reply", 5), 1)>>)

\* SessionStore(): the sessions directory is empty or holds SeedSession.
StoreInit ==
    /\ \E seeded \in BOOLEAN :
          /\ files = [path \in Paths |->
                        IF seeded /\ path = get_session_path("s1")
                        THEN File(SavedText(SeedSession)) ELSE NoFile]
          /\ lastSave = [id \in SessionIds |->
                        IF seeded /\ id = "s1"
                        THEN [NoSave EXCEPT !.saved = TRUE, !.session = SeedSession,
                                            !.clean = TRUE]
                        ELSE NoSave]
    /\ now = 2
    /\ pPc = [p \in Procs |-> "idle"]
    /\ pOp = [p \in Procs |-> "none"]
    /\ pId = [p \in Procs |-> NoId]
    /\ pSess = [p \in Procs |-> NoSession]
    /\ pPos = [p \in Procs |-> 0]
    /\ pUnlinked = [p \in Procs |-> FALSE]
    /\ pList = [p \in Procs |-> NoListing]
    /\ pRes = [p \in Procs |-> NoResult]
    /\ pShared = [p \in Procs |-> FALSE]
    /\ pStale = [p \in Procs |-> FALSE]

StoreIdle ==
    /\ files = [path \in Paths |-> NoFile]
    /\ lastSave = [id \in SessionIds |-> NoSave]
    /\ now = 0
    /\ pPc = [p \in Procs |-> "idle"]
    /\ pOp = [p \in Procs |-> "none"]
    /\ pId = [p \in Procs |-> NoId]
    /\ pSess = [p \in Procs |-> NoSession]
    /\ pPos = [p \in Procs |-> 0]
    /\ pUnlinked = [p \in Procs |-> FALSE]
    /\ pList = [p \in Procs |-> NoListing]
    /\ pRes = [p \in Procs |-> NoResult]
    /\ pShared = [p \in Procs |-> FALSE]
    /\ pStale = [p \in Procs |-> FALSE]

\* pShared once p starts on session id: p and every request already operating
\* on id share it.
Sharing(p, id) ==
    [q \in Procs |->
        \/ pShared[q]
        \/ /\ \E r \in Procs \ {p} : pId[r] = id
           /\ q = p \/ pId[q] = id]

\* Another request has the file at path open for writing.
SaveInProgress(p, path) ==
    \E q \in Procs \ {p} :
        /\ pPc[q] = "write" /\ ~pUnlinked[q]
        /\ get_session_path(pSess[q].session_id) = path

\* The handler raised at a read of path: the exception handler answers 500.
Failure(p, kind, path) ==
    [status |-> "error", kind |-> kind, path |-> path,
     duringSave |-> SaveInProgress(p, path)]

\* The ids uuid4() can return: no file has it and no request holds it.
FreshIds ==
    { id \in SessionIds :
        /\ ~files[get_session_path(id)].exists
        /\ \A q \in Procs : pId[q] # id /\ pSess[q].session_id # id }

\* POST /api/chat with request.session_id = rid, up to get_or_create's
\* path.exists() test in load, or Session.create()
Chat(p, rid) ==
    /\ pPc[p] = "idle"
    /\ pOp' = [pOp EXCEPT ![p] = "chat"]
    /\ IF rid # NoId /\ files[get_session_path(rid)].exists
       THEN /\ pPc' = [pPc EXCEPT ![p] = "read"]
            /\ pId' = [pId EXCEPT ![p] = rid]
            /\ pShared' = Sharing(p, rid)
            /\ UNCHANGED pSess
       ELSE /\ \E id \in FreshIds :
                  /\ pSess' = [pSess EXCEPT ![p] = Session(id, now, <<>>)]
                  /\ pId' = [pId EXCEPT ![p] = id]
            /\ pPc' = [pPc EXCEPT ![p] = "llm"]
            /\ UNCHANGED pShared
    /\ UNCHANGED <<files, now, pPos, pUnlinked, pList, pRes, pStale, lastSave>>

\* GET /api/sessions/{session_id}, up to load's path.exists() test
GetSession(p, id) ==
    /\ pPc[p] = "idle"
    /\ pOp' = [pOp EXCEPT ![p] = "get_session"]
    /\ pId' = [pId EXCEPT ![p] = id]
    /\ pShared' = Sharing(p, id)
    /\ IF files[get_session_path(id)].exists
       THEN pPc' = [pPc EXCEPT ![p] = "read"] /\ UNCHANGED pRes
       ELSE /\ pPc' = [pPc EXCEPT ![p] = "done"]
            /\ pRes' = [pRes EXCEPT ![p] = [status |-> "not_found"]]
    /\ UNCHANGED <<files, now, pSess, pPos, pUnlinked, pList, pStale, lastSave>>

\* DELETE /api/sessions/{session_id}, up to delete's path.exists() test
DeleteSession(p, id) ==
    /\ pPc[p] = "idle"
    /\ pOp' = [pOp EXCEPT ![p] = "delete_session"]
    /\ pId' = [pId EXCEPT ![p] = id]
    /\ pShared' = Sharing(p, id)
    /\ IF files[get_session_path(id)].exists
       THEN pPc' = [pPc EXCEPT ![p] = "unlink"] /\ UNCHANGED pRes
       ELSE /\ pPc' = [pPc EXCEPT ![p] = "done"]
            /\ pRes' = [pRes EXCEPT ![p] = [status |-> "not_found"]]
    /\ UNCHANGED <<files, now, pSess, pPos, pUnlinked, pList, pStale, lastSave>>

\* GET /api/sessions: list_all globs the directory
ListSessions(p) ==
    /\ pPc[p] = "idle"
    /\ pPc' = [pPc EXCEPT ![p] = "scan"]
    /\ pOp' = [pOp EXCEPT ![p] = "list_sessions"]
    /\ pList' = [pList EXCEPT ![p] =
                    [todo |-> { path \in Paths : files[path].exists }, acc |-> <<>>]]
    /\ UNCHANGED <<files, now, pId, pSess, pPos, pUnlinked, pRes, pShared, pStale,
                   lastSave>>

\* load: open(path), json.load(f), Session.from_dict(data)
LoadRead(p) ==
    /\ pPc[p] = "read"
    /\ LET path == get_session_path(pId[p])
           f == files[path]
       IN
       IF ~f.exists
       THEN /\ pRes' = [pRes EXCEPT ![p] = Failure(p, "FileNotFoundError", path)]
            /\ pPc' = [pPc EXCEPT ![p] = "done"]
            /\ UNCHANGED pSess
       ELSE IF ~JsonValid(f.text)
       THEN /\ pRes' = [pRes EXCEPT ![p] = Failure(p, "JSONDecodeError", path)]
            /\ pPc' = [pPc EXCEPT ![p] = "done"]
            /\ UNCHANGED pSess
       ELSE IF pOp[p] = "chat"
       THEN /\ pSess' = [pSess EXCEPT ![p] = from_dict(JsonLoad(f.text))]
            /\ pPc' = [pPc EXCEPT ![p] = "llm"]
            /\ UNCHANGED pRes
       ELSE /\ pRes' = [pRes EXCEPT ![p] =
                          [status |-> "ok", session |-> from_dict(JsonLoad(f.text))]]
            /\ pPc' = [pPc EXCEPT ![p] = "done"]
            /\ UNCHANGED pSess
    /\ UNCHANGED <<files, now, pOp, pId, pPos, pUnlinked, pList, pShared, pStale,
                   lastSave>>

\* A chat turn that saves without trim_to_max_tokens().
ChatTurn_without_trim(p, msg) ==
    /\ pPc[p] = "llm"
    /\ now + 2 <= MaxClock
    /\ \E reply \in Replies :
          LET s1 == add_message(pSess[p], "user", msg, now)
              s2 == add_message(s1, "assistant", reply, now + 1)
              s3 == s2
          IN  /\ pSess' = [pSess EXCEPT ![p] = s3]
              /\ files' = [files EXCEPT ![get_session_path(s3.session_id)] = File(<<>>)]
    /\ now' = now + 2
    /\ pPos' = [pPos EXCEPT ![p] = 0]
    /\ pUnlinked' = [pUnlinked EXCEPT ![p] = FALSE]
    /\ pPc' = [pPc EXCEPT ![p] = "write"]
    /\ UNCHANGED <<pOp, pId, pList, pRes, pShared, pStale, lastSave>>

\* chat with request.message = msg, from retrieve_context to save's open:
\* build_prompt, add_message("user"), llm_service.chat, add_message("assistant"),
\* trim_to_max_tokens(), then open(path, "w") creates or truncates the file
ChatTurn(p, msg) ==
    /\ pPc[p] = "llm"
    /\ now + 2 <= MaxClock
    /\ \E reply \in Replies :
          LET s1 == add_message(pSess[p], "user", msg, now)
              s2 == add_message(s1, "assistant", reply, now + 1)
              s3 == [s2 EXCEPT !.messages = trim_to_max_tokens(@, DefaultMaxTokens)]
          IN  /\ pSess' = [pSess EXCEPT ![p] = s3]
              /\ files' = [files EXCEPT ![get_session_path(s3.session_id)] = File(<<>>)]
    /\ now' = now + 2
    /\ pPos' = [pPos EXCEPT ![p] = 0]
    /\ pUnlinked' = [pUnlinked EXCEPT ![p] = FALSE]
    /\ pPc' = [pPc EXCEPT ![p] = "write"]
    /\ UNCHANGED <<pOp, pId, pList, pRes, pShared, pStale, lastSave>>

\* A failing chat that saves the session with the user message first.
ChatFails_after_save(p) ==
    /\ pPc[p] = "llm"
    /\ pRes' = [pRes EXCEPT ![p] = [status |-> "error", kind |-> "ProviderError",
                                    path |-> "", duringSave |-> FALSE]]
    /\ pPc' = [pPc EXCEPT ![p] = "done"]
    /\ files' = [files EXCEPT ![get_session_path(pSess[p].session_id)] =
                    File(SavedText(add_message(pSess[p], "user", Str("hi", 2), now)))]
    /\ UNCHANGED <<now, pOp, pId, pSess, pPos, pUnlinked, pList, pShared,
                   pStale, lastSave>>

\* chat: retrieve_context or llm_service.chat raises
ChatFails(p) ==
    /\ pPc[p] = "llm"
    /\ pRes' = [pRes EXCEPT ![p] = [status |-> "error", kind |-> "ProviderError",
                                    path |-> "", duringSave |-> FALSE]]
    /\ pPc' = [pPc EXCEPT ![p] = "done"]
    /\ UNCHANGED <<files, now, pOp, pId, pSess, pPos, pUnlinked, pList, pShared,
                   pStale, lastSave>>

\* Characters of content in a piece of text (the markup around it is not
\* counted: a bounded session holds far less than a buffer of it).
PieceSize(piece) == IF piece.tok = "msg" THEN StrLen(piece.content) ELSE 0

RECURSIVE TextSize(_, _, _)
\* Characters in pieces from+1..to of text.
TextSize(text, from, to) ==
    IF to <= from THEN 0 ELSE TextSize(text, from, to - 1) + PieceSize(text[to])

\* f.write fills the write buffer; once it holds more than BufferSize
\* characters the buffer goes to the file.  The pieces written by then, or 0
\* when the rest of text fits the buffer.
NextFlush(text, pos) ==
    LET full == { k \in (pos + 1)..Len(text) : TextSize(text, pos, k) > BufferSize }
    IN  IF full = {} THEN 0 ELSE CHOOSE k \in full : \A j \in full : k <= j

\* The directory after p writes pieces from+1..to of its text at offset from.
Written(p, from, to) ==
    IF pUnlinked[p] THEN files
    ELSE [files EXCEPT ![get_session_path(pSess[p].session_id)] =
            File(WriteAt(@.text, from, SubSeq(SavedText(pSess[p]), from + 1, to)))]

\* save: json.dump has filled the buffer, part of the text reaches the file
SaveFlush(p) ==
    /\ pPc[p] = "write"
    /\ LET k == NextFlush(SavedText(pSess[p]), pPos[p]) IN
          /\ k # 0
          /\ files' = Written(p, pPos[p], k)
          /\ pPos' = [pPos EXCEPT ![p] = k]
    /\ UNCHANGED <<now, pPc, pOp, pId, pSess, pUnlinked, pList, pRes, pShared,
                   pStale, lastSave>>

\* save: json.dump is through, the with block closes the file and the rest of
\* the text is written; chat then returns its ChatResponse
SaveClose(p) ==
    /\ pPc[p] = "write"
    /\ NextFlush(SavedText(pSess[p]), pPos[p]) = 0
    /\ LET id == pSess[p].session_id IN
          /\ files' = Written(p, pPos[p], Len(SavedText(pSess[p])))
          /\ lastSave' = [lastSave EXCEPT ![id] =
                [saved |-> TRUE, session |-> pSess[p], clean |-> ~pShared[p],
                 stale |-> pStale[p], unlinked |-> pUnlinked[p], deleted |-> FALSE]]
          /\ pStale' = [q \in Procs |->
                pStale[q] \/ (q # p /\ pSess[q].session_id = id)]
          /\ pRes' = [pRes EXCEPT ![p] = [status |-> "ok", session_id |-> id]]
    /\ pPc' = [pPc EXCEPT ![p] = "done"]
    /\ UNCHANGED <<now, pOp, pId, pSess, pPos, pUnlinked, pList, pShared>>

\* delete: path.unlink(); a request writing the file keeps writing to the
\* unlinked file, which no path names any more
DeleteUnlink(p) ==
    /\ pPc[p] = "unlink"
    /\ pPc' = [pPc EXCEPT ![p] = "done"]
    /\ LET path == get_session_path(pId[p]) IN
       IF files[path].exists
       THEN /\ files' = [files EXCEPT ![path] = NoFile]
            /\ pUnlinked' = [q \in Procs |->
                  \/ pUnlinked[q]
                  \/ pPc[q] = "write" /\ get_session_path(pSess[q].session_id) = path]
            /\ lastSave' = [lastSave EXCEPT ![pId[p]].deleted = TRUE]
            /\ pRes' = [pRes EXCEPT ![p] = [status |-> "deleted"]]
       ELSE /\ pRes' = [pRes EXCEPT ![p] = Failure(p, "FileNotFoundError", path)]
            /\ UNCHANGED <<files, pUnlinked, lastSave>>
    /\ UNCHANGED <<now, pOp, pId, pSess, pPos, pList, pShared, pStale>>

\* list_all: open and json.load the next globbed file, append its summary
ListRead(p) ==
    /\ pPc[p] = "scan"
    /\ \E path \in pList[p].todo :
          LET f == files[path] IN
          IF f.exists /\ JsonValid(f.text)
          THEN /\ pList' = [pList EXCEPT ![p] =
                    [todo |-> @.todo \ {path},
                     acc |-> Append(@.acc,
                        [session_id |-> JsonLoad(f.text).session_id,
                         created_at |-> JsonLoad(f.text).created_at,
                         message_count |->
                            Len(DictGet(JsonLoad(f.text), "messages", <<>>))])]]
               /\ UNCHANGED <<pPc, pRes>>
          ELSE /\ pRes' = [pRes EXCEPT ![p] =
                    Failure(p, IF f.exists THEN "JSONDecodeError"
                                           ELSE "FileNotFoundError", path)]
               /\ pPc' = [pPc EXCEPT ![p] = "done"]
               /\ UNCHANGED pList
    /\ UNCHANGED <<files, now, pOp, pId, pSess, pPos, pUnlinked, pShared, pStale,
                   lastSave>>

\* list_all: sort newest first and return
ListReturn(p) ==
    /\ pPc[p] = "scan"
    /\ pList[p].todo = {}
    /\ pRes' = [pRes EXCEPT ![p] =
                  [status |-> "ok", sessions |-> SortNewestFirst(pList[p].acc)]]
    /\ pPc' = [pPc EXCEPT ![p] = "done"]
    /\ UNCHANGED <<files, now, pOp, pId, pSess, pPos, pUnlinked, pList, pShared,
                   pStale, lastSave>>

\* The response is sent; the request slot is free again.
Respond(p) ==
    /\ pPc[p] = "done"
    /\ pPc' = [pPc EXCEPT ![p] = "idle"]
    /\ pOp' = [pOp EXCEPT ![p] = "none"]
    /\ pId' = [pId EXCEPT ![p] = NoId]
    /\ pSess' = [pSess EXCEPT ![p] = NoSession]
    /\ pPos' = [pPos EXCEPT ![p] = 0]
    /\ pUnlinked' = [pUnlinked EXCEPT ![p] = FALSE]
    /\ pList' = [pList EXCEPT ![p] = NoListing]
    /\ pRes' = [pRes EXCEPT ![p] = NoResult]
    /\ pShared' = [pShared EXCEPT ![p] = FALSE]
    /\ pStale' = [pStale EXCEPT ![p] = FALSE]
    /\ UNCHANGED <<files, now, lastSave>>

\* No response is waiting to be sent.  Sending touches no shared state, so it
\* is followed before the next step of any request.
NoResponsePending == \A p \in Procs : pPc[p] # "done"

(***************************************************************************)
(* SpecGetOrCreate: SessionStore.get_or_create called on a store at rest.  *)
(***************************************************************************)
\* The values uuid4() may return in SpecGetOrCreate.
UuidPool == SessionIds \cup {"s3"}

\* The sessions a file of the store may hold for session_id.
PersistedSessions(session_id) ==
    { Session(session_id, c, msgs) :
        c \in 0..1,
        msgs \in { <<>>,
                   <<ChatMessage("user", Str("hi", 2), 1)>>,
                   <<ChatMessage("user", Str("hi", 2), 1),
                     ChatMessage("assistant", Str("reply", 5), 2)>> } }

\* The session directories save and delete can leave: per id no file or the
\* text of one saved session of that id.
Stores ==
    { fs \in [Paths -> {NoFile} \cup { File(SavedText(s)) :
                                         s \in UNION { PersistedSessions(id) :
                                                         id \in SessionIds } }] :
        \A id \in SessionIds :
            fs[get_session_path(id)].exists =>
                fs[get_session_path(id)].text[1].session_id = id }

\* The ids that have a file in the store.
PersistedIds(fs) == { id \in SessionIds : fs[get_session_path(id)].exists }

\* What uuid4() can return: an id no session has.
NewIds(fs) == UuidPool \ PersistedIds(fs)

\* SessionStore.load; None is NoSession
load(fs, session_id) ==
    LET path == get_session_path(session_id) IN
        IF ~fs[path].exists
        THEN NoSession
        ELSE IF ~JsonValid(fs[path].text)
        THEN Raised("JSONDecodeError")
        ELSE from_dict(JsonLoad(fs[path].text))

\* Session.create(): session_id = str(uuid4()), created_at = utcnow
create(new_id, t) == Session(new_id, t, <<>>)

\* A get_or_create that never looks at the store.
get_or_create_always_new(fs, session_id, new_id, t) == create(new_id, t)

\* SessionStore.get_or_create; new_id is what uuid4() returns if it is called
get_or_create(fs, session_id, new_id, t) ==
    IF session_id # NoId /\ load(fs, session_id) # NoSession
    THEN load(fs, session_id)
    ELSE create(new_id, t)

GetOrCreateInit ==
    /\ gFiles \in Stores
    /\ gArg \in SessionIds \cup {NoId}
    /\ gNow \in 2..MaxClock
    /\ gRet = NoSession
    /\ gPc = "call"

GetOrCreateIdle ==
    /\ gFiles = [path \in Paths |-> NoFile]
    /\ gArg = NoId
    /\ gNow = 0
    /\ gRet = NoSession
    /\ gPc = "done"

GetOrCreateCall(new_id) ==
    /\ gPc = "call"
    /\ gRet' = get_or_create(gFiles, gArg, new_id, gNow)
    /\ gPc' = "done"
    /\ UNCHANGED <<gFiles, gArg, gNow>>

(***************************************************************************)
(* SpecDim: search on a collection that an earlier run may have filled     *)
(* with another embedding model (the collection is persistent and startup  *)
(* rebuilds it only when it is empty).                                     *)
(***************************************************************************)
Dims == 1..MaxDim

NoEmbedding == [dim |-> 0, text |-> <<>>]

DimInit ==
    /\ dModelDim \in Dims
    /\ dStoredDim \in Dims \cup {0}
    /\ dQuery \in Queries
    /\ dTopK \in {Absent} \cup { Given(k) : k \in 1..MaxTopK }
    /\ dEmbedding = NoEmbedding
    /\ dHanded = FALSE
    /\ dOutcome = NoResult
    /\ dPc = "embed"

DimIdle ==
    /\ dModelDim = 1
    /\ dStoredDim = 0
    /\ dQuery = <<>>
    /\ dTopK = Absent
    /\ dEmbedding = NoEmbedding
    /\ dHanded = FALSE
    /\ dOutcome = NoResult
    /\ dPc = "done"

\* search: query_embedding = self.embedding_service.embed_single(query)
EmbedQuery ==
    /\ dPc = "embed"
    /\ dEmbedding' = [dim |-> dModelDim, text |-> dQuery]
    /\ dPc' = "query"
    /\ UNCHANGED <<dModelDim, dStoredDim, dQuery, dTopK, dHanded, dOutcome>>

\* search: self.collection.query(query_embeddings=[query_embedding],
\* n_results=top_k); the engine rejects a vector of another length than the
\* stored ones
QueryCollection ==
    /\ dPc = "query"
    /\ dHanded' = TRUE
    /\ dOutcome' = IF dStoredDim # 0 /\ dEmbedding.dim # dStoredDim
                   THEN Raised("InvalidDimensionException")
                   ELSE [status |-> "ok"]
    /\ dPc' = "done"
    /\ UNCHANGED <<dModelDim, dStoredDim, dQuery, dTopK, dEmbedding>>

(***************************************************************************)
(* SpecLoad: load and get_or_create on a store whose files may be damaged. *)
(***************************************************************************)
\* Texts of a session file that save did not leave: cut short, or a JSON
\* object that lacks a field.
DamagedTexts(session_id) ==
    LET d == to_dict(Session(session_id, 0,
                             <<ChatMessage("user", Str("hi", 2), 1)>>))
    IN  { <<>>,
          <<JsonHead(d)>>,
          <<JsonHead(d), JsonMsg(d.messages[1])>>,
          <<JsonObject([session_id |-> d.session_id, created_at |-> d.created_at])>>,
          <<JsonObject([created_at |-> d.created_at, messages |-> d.messages])>> }

\* The texts save leaves in the file of session_id.
SavedTexts(session_id) == { SavedText(s) : s \in PersistedSessions(session_id) }

\* Per id no file, a saved session, or a damaged file.
DamagedStores ==
    { fs \in [Paths -> {NoFile} \cup { File(text) :
                                         text \in UNION { SavedTexts(id) \cup DamagedTexts(id) :
                                                            id \in SessionIds } }] :
        \A id \in SessionIds :
            fs[get_session_path(id)].exists =>
                fs[get_session_path(id)].text \in SavedTexts(id) \cup DamagedTexts(id) }

LoadInit ==
    /\ gFiles \in DamagedStores
    /\ gArg \in SessionIds
    /\ gNow = 2
    /\ gRet = NoSession
    /\ gPc = "call"

\* session_store.load(session_id)
LoadCall ==
    /\ gPc = "call"
    /\ gRet' = load(gFiles, gArg)
    /\ gPc' = "done"
    /\ UNCHANGED <<gFiles, gArg, gNow>>

(***************************************************************************)
(* SpecListAll: one list_all call on a store at rest.                      *)
(***************************************************************************)
ListAllInit ==
    /\ files \in Stores
    /\ lastSave = [id \in SessionIds |-> NoSave]
    /\ now = 2
    /\ pPc = [p \in Procs |-> "idle"]
    /\ pOp = [p \in Procs |-> "none"]
    /\ pId = [p \in Procs |-> NoId]
    /\ pSess = [p \in Procs |-> NoSession]
    /\ pPos = [p \in Procs |-> 0]
    /\ pUnlinked = [p \in Procs |-> FALSE]
    /\ pList = [p \in Procs |-> NoListing]
    /\ pRes = [p \in Procs |-> NoResult]
    /\ pShared = [p \in Procs |-> FALSE]
    /\ pStale = [p \in Procs |-> FALSE]

(***************************************************************************)
(* app/services/rag.py, app/models/character.py.  A prompt is the sequence *)
(* of the pieces of text it is put together from.                          *)
(***************************************************************************)
\* Character.build_system_prompt: the persona text
build_system_prompt(character) == <<[sec |-> "persona", character |-> character]>>

\* "IMPORTANT: Always respond in the same language as the user's message. ..."
LanguageInstruction == <<[sec |-> "language"]>>

\* f"[From {r['metadata']['source']}]: {r['text']}"
ContextEntry(r) == [sec |-> "entry", source |-> r.metadata.source, text |-> r.text]

\* "\n\n".join(entries): a blank line between neighbours
JoinBlank(entries) ==
    [i \in 1..(2 * Len(entries) - 1) |->
        IF i % 2 = 1 THEN entries[(i + 1) \div 2] ELSE [sec |-> "blank"]]

\* "RELEVANT CONTEXT FROM YOUR KNOWLEDGE:", the entries, "Use this information
\* ... always stay in character as {name}."
ContextBlock(character, context_results) ==
    <<[sec |-> "context_header"]>>
      \o JoinBlank([i \in DOMAIN context_results |-> ContextEntry(context_results[i])])
      \o <<[sec |-> "context_footer", name |-> character.name]>>

\* "Respond to the user as {name}, staying in character."
PlainInstruction(character) == <<[sec |-> "in_character", name |-> character.name]>>

\* A build_prompt that puts the context before the language instruction.
build_prompt_context_first(character, user_message, context_results) ==
    build_system_prompt(character)
      \o (IF context_results # <<>>
          THEN ContextBlock(character, context_results)
          ELSE PlainInstruction(character))
      \o LanguageInstruction

\* RAGService.build_prompt
build_prompt(character, user_message, context_results) ==
    build_system_prompt(character)
      \o LanguageInstruction
      \o (IF context_results # <<>>
          THEN ContextBlock(character, context_results)
          ELSE PlainInstruction(character))

(***************************************************************************)
(* SpecHandler: the chat handler between get_or_create and                 *)
(* trim_to_max_tokens, for every session, message and retrieved context    *)
(* within the bounds.                                                      *)
(***************************************************************************)
Characters == { [name |-> "Echo"], [name |-> "Nora"] }

\* The session of n messages: message i has content number i, timestamp i.
PriorSession(n) ==
    Session("s1", 0,
            [i \in 1..n |-> ChatMessage(IF i % 2 = 1 THEN "user" ELSE "assistant",
                                        Str("m", i), i)])

\* Entries search can return.
ResultPool ==
    { [text |-> t, metadata |-> [source |-> f, chunk_id |-> 0], similarity |-> 82] :
        t \in {<<"a">>, <<"b">>}, f \in KFiles }

ResultLists == UNION { [1..n -> ResultPool] : n \in 0..MaxResults }

NoAdd == [before |-> NoSession, role |-> "none", content |-> Str("", 0),
          result |-> ChatMessage("none", Str("", 0), 0)]

\* ChatMessage.create(role, content) at clock reading t
ChatMessageCreate(role, content, t) == ChatMessage(role, content, t)

\* ChatMessage.to_llm_message
to_llm_message(m) == [role |-> m.role, content |-> m.content]

HandlerInit ==
    /\ hCharacter \in Characters
    /\ \E n \in 0..MaxPrior : hLoaded = PriorSession(n) /\ hNow = n + 1
    /\ hMessage \in UserMessages
    /\ hResults \in ResultLists
    /\ hSession = hLoaded
    /\ hPrompt = <<>>
    /\ hHistory = <<>>
    /\ hAdd = NoAdd
    /\ hLlm = <<>>
    /\ hReply = Str("", 0)
    /\ hPc = "prompt"

HandlerIdle ==
    /\ hCharacter = [name |-> "Echo"]
    /\ hLoaded = NoSession
    /\ hMessage = Str("", 0)
    /\ hResults = <<>>
    /\ hNow = 0
    /\ hSession = NoSession
    /\ hPrompt = <<>>
    /\ hHistory = <<>>
    /\ hAdd = NoAdd
    /\ hLlm = <<>>
    /\ hReply = Str("", 0)
    /\ hPc = "done"

\* chat: system_prompt = rag_service.build_prompt(request.message, context_results)
BuildPrompt ==
    /\ hPc = "prompt"
    /\ hPrompt' = build_prompt(hCharacter, hMessage, hResults)
    /\ hPc' = "history"
    /\ UNCHANGED <<hCharacter, hLoaded, hMessage, hResults, hNow, hSession, hHistory,
                   hAdd, hLlm, hReply>>

\* chat: history_messages = session.get_llm_messages(max_history=20)
GetHistory ==
    /\ hPc = "history"
    /\ hHistory' = get_llm_messages(hSession, MaxHistory)
    /\ hPc' = "add_user"
    /\ UNCHANGED <<hCharacter, hLoaded, hMessage, hResults, hNow, hSession, hPrompt,
                   hAdd, hLlm, hReply>>

\* chat: session.add_message("user", request.message)
AddUserMessage ==
    /\ hPc = "add_user"
    /\ hSession' = add_message(hSession, "user", hMessage, hNow)
    /\ hAdd' = [before |-> hSession, role |-> "user", content |-> hMessage,
                result |-> ChatMessageCreate("user", hMessage, hNow)]
    /\ hNow' = hNow + 1
    /\ hPc' = "llm"
    /\ UNCHANGED <<hCharacter, hLoaded, hMessage, hResults, hPrompt, hHistory, hLlm,
                   hReply>>

\* chat: llm_messages = history_messages + [session.messages[-1].to_llm_message()],
\* response_text = llm_service.chat(llm_messages, system_prompt=system_prompt)
CallLlm(reply) ==
    /\ hPc = "llm"
    /\ hLlm' = hHistory \o <<to_llm_message(hSession.messages[Len(hSession.messages)])>>
    /\ hReply' = reply
    /\ hPc' = "add_reply"
    /\ UNCHANGED <<hCharacter, hLoaded, hMessage, hResults, hNow, hSession, hPrompt,
                   hHistory, hAdd>>

\* chat: session.add_message("assistant", response_text)
AddAssistantMessage ==
    /\ hPc = "add_reply"
    /\ hSession' = add_message(hSession, "assistant", hReply, hNow)
    /\ hAdd' = [before |-> hSession, role |-> "assistant", content |-> hReply,
                result |-> ChatMessageCreate("assistant", hReply, hNow)]
    /\ hNow' = hNow + 1
    /\ hPc' = "done"
    /\ UNCHANGED <<hCharacter, hLoaded, hMessage, hResults, hPrompt, hHistory, hLlm,
                   hReply>>

(***************************************************************************)
(* Specifications.                                                         *)
(***************************************************************************)
vars == <<trimVars, chunkVars, indexVars, storeVars, searchVars, gocVars, handlerVars, dimVars>>

TrimNext == TrimCall /\ UNCHANGED <<chunkVars, indexVars, storeVars, searchVars, gocVars, handlerVars, dimVars>>

InitTrim == TrimInit /\ ChunkIdle /\ IndexIdle /\ StoreIdle /\ SearchIdle /\ GetOrCreateIdle /\ HandlerIdle /\ DimIdle

SpecTrim == InitTrim /\ [][TrimNext]_vars

ChunkNext ==
    \/ ChunkCall /\ UNCHANGED <<trimVars, indexVars, storeVars, searchVars, gocVars, handlerVars, dimVars>>
    \/ ChunkIterate /\ UNCHANGED <<trimVars, indexVars, storeVars, searchVars, gocVars, handlerVars, dimVars>>
    \/ ChunkReturn /\ UNCHANGED <<trimVars, indexVars, storeVars, searchVars, gocVars, handlerVars, dimVars>>

InitChunk == ChunkInit /\ TrimIdle /\ IndexIdle /\ StoreIdle /\ SearchIdle /\ GetOrCreateIdle /\ HandlerIdle /\ DimIdle

SpecChunk == InitChunk /\ [][ChunkNext]_vars

\* chunk_text is a plain loop: once called it keeps running.
SpecChunkFair == SpecChunk /\ WF_vars(ChunkNext)

IndexNext ==
    \/ NoAnswerPending /\ EditKnowledge /\ UNCHANGED <<trimVars, chunkVars, storeVars, searchVars, gocVars, handlerVars, dimVars>>
    \/ NoAnswerPending /\ Lifespan /\ UNCHANGED <<trimVars, chunkVars, storeVars, searchVars, gocVars, handlerVars, dimVars>>
    \/ NoAnswerPending /\ RebuildKnowledge /\ UNCHANGED <<trimVars, chunkVars, storeVars, searchVars, gocVars, handlerVars, dimVars>>
    \/ NoAnswerPending /\ DeleteCollection /\ UNCHANGED <<trimVars, chunkVars, storeVars, searchVars, gocVars, handlerVars, dimVars>>
    \/ NoAnswerPending /\ CreateCollection /\ UNCHANGED <<trimVars, chunkVars, storeVars, searchVars, gocVars, handlerVars, dimVars>>
    \/ NoAnswerPending /\ EmbedChunks /\ UNCHANGED <<trimVars, chunkVars, storeVars, searchVars, gocVars, handlerVars, dimVars>>
    \/ NoAnswerPending /\ InsertChunks /\ UNCHANGED <<trimVars, chunkVars, storeVars, searchVars, gocVars, handlerVars, dimVars>>
    \/ NoAnswerPending /\ AddDocumentsFails /\ UNCHANGED <<trimVars, chunkVars, storeVars, searchVars, gocVars, handlerVars, dimVars>>
    \/ NoAnswerPending /\ IndexReturn /\ UNCHANGED <<trimVars, chunkVars, storeVars, searchVars, gocVars, handlerVars, dimVars>>
    \/ NoAnswerPending /\ IndexDone /\ UNCHANGED <<trimVars, chunkVars, storeVars, searchVars, gocVars, handlerVars, dimVars>>
    \/ \E q \in QueryProcs :
          NoAnswerPending /\ QueryCount(q) /\ UNCHANGED <<trimVars, chunkVars, storeVars, searchVars, gocVars, handlerVars, dimVars>>
    \/ \E q \in QueryProcs :
          NoAnswerPending /\ QuerySearch(q) /\ UNCHANGED <<trimVars, chunkVars, storeVars, searchVars, gocVars, handlerVars, dimVars>>
    \/ \E q \in QueryProcs : QueryDone(q) /\ UNCHANGED <<trimVars, chunkVars, storeVars, searchVars, gocVars, handlerVars, dimVars>>

InitIndex == IndexInit /\ TrimIdle /\ ChunkIdle /\ StoreIdle /\ SearchIdle /\ GetOrCreateIdle /\ HandlerIdle /\ DimIdle

SpecIndex == InitIndex /\ [][IndexNext]_vars

SearchNext ==
    SearchCall /\ UNCHANGED <<trimVars, chunkVars, indexVars, storeVars, gocVars, handlerVars, dimVars>>

InitSearch == SearchInit /\ TrimIdle /\ ChunkIdle /\ IndexIdle /\ StoreIdle /\ GetOrCreateIdle /\ HandlerIdle /\ DimIdle

SpecSearch == InitSearch /\ [][SearchNext]_vars

GetOrCreateNext ==
    \E new_id \in NewIds(gFiles) :
        GetOrCreateCall(new_id)
          /\ UNCHANGED <<trimVars, chunkVars, indexVars, storeVars, searchVars, handlerVars, dimVars>>

InitGetOrCreate ==
    GetOrCreateInit /\ TrimIdle /\ ChunkIdle /\ IndexIdle /\ StoreIdle /\ SearchIdle
      /\ HandlerIdle /\ DimIdle

SpecGetOrCreate == InitGetOrCreate /\ [][GetOrCreateNext]_vars

DimOthers == <<trimVars, chunkVars, indexVars, storeVars, searchVars, gocVars,
               handlerVars>>

DimNext ==
    \/ EmbedQuery /\ UNCHANGED DimOthers
    \/ QueryCollection /\ UNCHANGED DimOthers

InitDim ==
    DimInit /\ TrimIdle /\ ChunkIdle /\ IndexIdle /\ StoreIdle /\ SearchIdle
      /\ GetOrCreateIdle /\ HandlerIdle

SpecDim == InitDim /\ [][DimNext]_vars

LoadOthers == <<trimVars, chunkVars, indexVars, storeVars, searchVars, handlerVars, dimVars>>

LoadNext ==
    \/ LoadCall /\ UNCHANGED LoadOthers
    \/ \E new_id \in NewIds(gFiles) : GetOrCreateCall(new_id) /\ UNCHANGED LoadOthers

InitLoad ==
    LoadInit /\ TrimIdle /\ ChunkIdle /\ IndexIdle /\ StoreIdle /\ SearchIdle
      /\ HandlerIdle /\ DimIdle

SpecLoad == InitLoad /\ [][LoadNext]_vars

ListAllOthers == <<trimVars, chunkVars, indexVars, searchVars, gocVars, handlerVars, dimVars>>

ListAllNext ==
    \/ ListSessions("p1") /\ UNCHANGED ListAllOthers
    \/ ListRead("p1") /\ UNCHANGED ListAllOthers
    \/ ListReturn("p1") /\ UNCHANGED ListAllOthers

InitListAll ==
    ListAllInit /\ TrimIdle /\ ChunkIdle /\ IndexIdle /\ SearchIdle /\ GetOrCreateIdle
      /\ HandlerIdle /\ DimIdle

SpecListAll == InitListAll /\ [][ListAllNext]_vars

HandlerOthers == <<trimVars, chunkVars, indexVars, storeVars, searchVars, gocVars, dimVars>>

HandlerNext ==
    \/ BuildPrompt /\ UNCHANGED HandlerOthers
    \/ GetHistory /\ UNCHANGED HandlerOthers
    \/ AddUserMessage /\ UNCHANGED HandlerOthers
    \/ \E reply \in Replies : CallLlm(reply) /\ UNCHANGED HandlerOthers
    \/ AddAssistantMessage /\ UNCHANGED HandlerOthers

InitHandler ==
    HandlerInit /\ TrimIdle /\ ChunkIdle /\ IndexIdle /\ StoreIdle /\ SearchIdle
      /\ GetOrCreateIdle /\ DimIdle

SpecHandler == InitHandler /\ [][HandlerNext]_vars

Others == <<trimVars, chunkVars, indexVars, searchVars, gocVars, handlerVars, dimVars>>

Next ==
    \/ \E p \in Procs, rid \in SessionIds \cup {NoId} :
          NoResponsePending /\ Chat(p, rid) /\ UNCHANGED Others
    \/ \E p \in Procs, id \in SessionIds :
          NoResponsePending /\ GetSession(p, id) /\ UNCHANGED Others
    \/ \E p \in Procs, id \in SessionIds :
          NoResponsePending /\ DeleteSession(p, id) /\ UNCHANGED Others
    \/ \E p \in Procs : NoResponsePending /\ ListSessions(p) /\ UNCHANGED Others
    \/ \E p \in Procs : NoResponsePending /\ LoadRead(p) /\ UNCHANGED Others
    \/ \E p \in Procs, msg \in UserMessages :
          NoResponsePending /\ ChatTurn(p, msg) /\ UNCHANGED Others
    \/ \E p \in Procs : NoResponsePending /\ ChatFails(p) /\ UNCHANGED Others
    \/ \E p \in Procs : NoResponsePending /\ SaveFlush(p) /\ UNCHANGED Others
    \/ \E p \in Procs : NoResponsePending /\ SaveClose(p) /\ UNCHANGED Others
    \/ \E p \in Procs : NoResponsePending /\ DeleteUnlink(p) /\ UNCHANGED Others
    \/ \E p \in Procs : NoResponsePending /\ ListRead(p) /\ UNCHANGED Others
    \/ \E p \in Procs : NoResponsePending /\ ListReturn(p) /\ UNCHANGED Others
    \/ \E p \in Procs : Respond(p) /\ UNCHANGED Others

Init == StoreInit /\ TrimIdle /\ ChunkIdle /\ IndexIdle /\ SearchIdle /\ GetOrCreateIdle /\ HandlerIdle /\ DimIdle

Spec == Init /\ [][Next]_vars

(***************************************************************************)
(* Claims about trim_to_max_tokens (SpecTrim).                             *)
(***************************************************************************)
SuffixFrom(msgs, k) == SubSeq(msgs, k, Len(msgs))

\* The least k whose suffix msgs[k..] has at most budget characters.
LongestSuffixStart(msgs, budget) ==
    LET ks == { k \in 1..(Len(msgs) + 1) : SumChars(SuffixFrom(msgs, k)) <= budget }
    IN  CHOOSE k \in ks : \A j \in ks : k <= j

\* C8: after trim_to_max_tokens(maxTokens) either no messages remain or the
\* total characters of the remaining contents, divided by 4, do not exceed
\* maxTokens; with 40,000 characters and maxTokens = 8000 at most 32,000
\* characters remain.
C8_TrimWithinBudget ==
    tCalls > 0 =>
        /\ \/ tSession.messages = <<>>
           \/ SumChars(tSession.messages) <= 4 * tMaxTokens
        /\ (tMaxTokens = 8000 /\ SumChars(tHist[1].messages) = 40000)
              => SumChars(tSession.messages) <= 32000

C8_Witness ==
    /\ tCalls > 0
    /\ tSession.messages # <<>>
    /\ Len(tSession.messages) < Len(tBefore.messages)
    /\ SumChars(tBefore.messages) > 4 * tMaxTokens

\* C9: trim evicts only whole messages from the front and only as many as
\* needed: the result is the longest suffix of the original list whose total
\* content length is within the budget, every surviving message unchanged and
\* in order; a session already within budget is left entirely unchanged.
C9_TrimLongestSuffix ==
    tCalls > 0 =>
        LET orig == tBefore.messages
            budget == 4 * tMaxTokens
        IN  /\ tSession.messages = SuffixFrom(orig, LongestSuffixStart(orig, budget))
            /\ tSession.session_id = tBefore.session_id
            /\ tSession.created_at = tBefore.created_at
            /\ SumChars(orig) <= budget => tSession = tBefore

C9_Witness ==
    /\ tCalls = 1
    /\ Len(tBefore.messages) - Len(tSession.messages) >= 2
    /\ tSession.messages # <<>>

\* C10: trim_to_max_tokens is idempotent: a second call with the same budget
\* right after the first leaves the session as the first call left it.
C10_TrimIdempotent ==
    tCalls >= 2 => tSession = tHist[2]

C10_Witness ==
    /\ tCalls = 2
    /\ tHist[2] # tHist[1]
    /\ tSession.messages # <<>>

(***************************************************************************)
(* Claims about the vector index (SpecIndex).                              *)
(***************************************************************************)
\* The answer a query request would get from a collection holding docs.
AnswerOn(docs, obs) ==
    IF obs.op = "count" THEN count(docs)
    ELSE search(docs, obs.query, Absent, Absent)

\* C1: while index_knowledge_files is in progress, every concurrent search or
\* count is answered from the complete pre-rebuild contents or from the
\* complete post-rebuild contents, or it fails; it never silently observes an
\* empty or partially populated index.
C1_QueriesSeeWholeIndex ==
    \A q \in QueryProcs :
        (qObs[q] # NoObs /\ InRebuild) =>
            \/ qObs[q].status = "error"
            \/ qObs[q].result = AnswerOn(rPre, qObs[q])
            \/ qObs[q].result = AnswerOn(DocsOf(rChunks), qObs[q])

\* C2: if embedding or insertion fails during a rebuild, the index still
\* holds exactly the contents it had before the rebuild started.
C2_FailedRebuildKeepsIndex ==
    (rPc = "done" /\ rOutcome.status = "failed") =>
        (collExists /\ collDocs = rPre)

\* index_knowledge_files has returned its statistics.
RebuildSucceeded == rPc = "done" /\ rOutcome.status = "ok"

\* C18: right after a successful rebuild count() equals the number of items
\* handed to the replace, the total_chunks the call reports, whatever the
\* index held before, zero items included.
C18_CountAfterRebuild ==
    RebuildSucceeded =>
        /\ count(collDocs) = rOutcome.total_chunks
        /\ rOutcome.total_chunks = Len(rChunks)

\* A rebuild over an index of another size has succeeded with two files.
C18_Witness ==
    /\ RebuildSucceeded
    /\ rOutcome.files_indexed = 2
    /\ rPre # {}
    /\ Cardinality(rPre) # rOutcome.total_chunks

\* What the call has listed and read: every text file of the knowledge
\* directory but the profile, once each, and the chunks of their texts.
CorpusRead ==
    LET names == { rFiles[i] : i \in DOMAIN rFiles } IN
        /\ names = { f \in DOMAIN knowledge : knowledge[f].exists } \ {ProfileFile}
        /\ Len(rFiles) = Cardinality(names)
        /\ DocsOf(rChunks) =
              UNION { DocsOf(chunk_text(knowledge[f].text, f, KChunkSize, KChunkOverlap)) :
                        f \in names }

\* The index holds the entries of the chunks read, none of the profile.
IndexIsCorpus ==
    RebuildSucceeded =>
        /\ collDocs = DocsOf(rChunks)
        /\ \A d \in collDocs : d.metadata.source # ProfileFile

\* C19: after a successful index_knowledge_files the index holds exactly the
\* chunks of the text files the call found in the knowledge directory, the
\* profile file left out: nothing of a previous corpus remains and no entry
\* has the profile file as its source.
C19_IndexIsExactlyCorpus ==
    /\ [][(rPc = "idle" /\ rPc' = "delete") => CorpusRead']_vars
    /\ []IndexIsCorpus

\* A rebuild has succeeded that removed entries of the previous corpus.
C19_Witness ==
    /\ RebuildSucceeded
    /\ collDocs # {}
    /\ rPre \ collDocs # {}

(***************************************************************************)
(* Claims about chunk_text (SpecChunk).                                    *)
(***************************************************************************)
\* C3: when chunk_overlap >= chunk_size, chunking a non-empty text fails fast
\* with a configuration error: the call never runs a loop iteration (whose
\* start offset would not advance) and never returns chunks.
C3_OverlapFailsFast ==
    (cOverlap >= cSize /\ cText # <<>>) => (cChunkId = 0 /\ cPc # "done")

\* chunk_text has returned cChunks for a configuration with
\* 0 < chunk_overlap < chunk_size.
ReturnedValid == cPc = "done" /\ 0 < cOverlap /\ cOverlap < cSize

\* ceil(a / b) for b > 0
CeilDiv(a, b) == IF a <= 0 THEN 0 ELSE ((a + b) - 1) \div b

\* C11: for 0 < chunk_overlap < chunk_size the number of chunks returned is
\* ceil((len(T) - chunk_overlap) / (chunk_size - chunk_overlap)) when
\* len(T) > chunk_overlap, 1 when 0 < len(T) <= chunk_overlap, 0 when T is empty.
C11_ChunkCount ==
    ReturnedValid =>
        Len(cChunks) =
            IF Len(cText) > cOverlap
            THEN CeilDiv(Len(cText) - cOverlap, cSize - cOverlap)
            ELSE IF Len(cText) > 0 THEN 1 ELSE 0

\* The positions of the text (from 1) that chunk i holds.
Span(i) ==
    { cChunks[i].metadata.start + k : k \in 1..Len(cChunks[i].text) }

\* C12: for chunk_overlap < chunk_size the chunk texts cover every position
\* of the text with no gap, and two consecutive chunks, neither of them the
\* final one, share exactly chunk_overlap characters.
C12_ChunksCoverAndOverlap ==
    (cPc = "done" /\ 0 <= cOverlap /\ cOverlap < cSize) =>
        /\ UNION { Span(i) : i \in DOMAIN cChunks } = 1..Len(cText)
        /\ \A i \in DOMAIN cChunks :
              \A k \in 1..Len(cChunks[i].text) :
                 cChunks[i].text[k] = cText[cChunks[i].metadata.start + k]
        /\ \A i \in 1..(Len(cChunks) - 2) :
              Cardinality(Span(i) \cap Span(i + 1)) = cOverlap

\* C13: every chunk records offsets with start < end <= len(text), end being
\* start + chunk_size clipped to the length of the text.
C13_ChunkOffsets ==
    \A i \in DOMAIN cChunks :
        LET md == cChunks[i].metadata IN
            /\ md.start < md.end
            /\ md.end <= Len(cText)
            /\ md.end = Min(md.start + cSize, Len(cText))

\* C14: for 0 < chunk_overlap < chunk_size the call returns; every iteration
\* moves start forward, and with start >= len(text) the loop is left at once.
C14_ChunkTextTerminates ==
    /\ (0 < cOverlap /\ cOverlap < cSize) => <>(cPc = "done")
    /\ [][(0 < cOverlap /\ cOverlap < cSize /\ cChunkId' # cChunkId)
             => cStart' > cStart]_vars
    /\ [][(cPc = "loop" /\ cStart >= Len(cText)) => cPc' = "done"]_vars

\* A call with a valid overlap has returned after three or more iterations.
C14_Witness == ReturnedValid /\ Len(cChunks) >= 3 /\ cStart >= Len(cText)

(***************************************************************************)
(* Claims about search (SpecSearch).                                       *)
(***************************************************************************)
\* The value an optional argument stands for: the caller's when supplied,
\* the configured default when absent.
Supplied(arg, default) == IF arg.given THEN arg.val ELSE default

\* The search result entry of a stored document.
ResultOf(qe, d) ==
    [text |-> d.document, metadata |-> d.metadata,
     similarity |-> Similarity(qe, d.embedding)]

C16_SearchKeepsAllAboveThreshold ==
    sPc = "done" =>
        LET qe == Embed(sQuery)
            ms == Supplied(sMinSim, ConfigMinSimilarity)
            nearest == Nearest(sDocs, qe, Supplied(sTopK, ConfigTopK))
            Clears(d) == Similarity(qe, d.embedding) >= ms
            kept == SelectSeq(nearest, Clears)
        IN  /\ sResult = [i \in DOMAIN kept |-> ResultOf(qe, kept[i])]
            /\ (\A d \in sDocs : ~Clears(d)) => sResult = <<>>

\* C17: search works with the caller's top_k and min_similarity whenever they
\* are supplied (min_similarity = 0 included) and with the configured
\* defaults only when they are absent.
C17_SuppliedArgumentsUsed ==
    sPc = "done" =>
        sResult = FilterResults(Nearest(sDocs, Embed(sQuery),
                                        Supplied(sTopK, ConfigTopK)),
                                Embed(sQuery),
                                Supplied(sMinSim, ConfigMinSimilarity))

(***************************************************************************)
(* Claims about the chat handler's steps (SpecHandler).                    *)
(***************************************************************************)
\* add_message has been called.
Added == hAdd # NoAdd

\* C21: add_message is a pure append: the message count grows by exactly one,
\* the new message, with the given role and content, is the last element and
\* is the value returned, and every message present before keeps its
\* position, role, content and timestamp.
C21_AddMessageAppends ==
    Added =>
        LET old == hAdd.before.messages
            new == hSession.messages
        IN  /\ Len(new) = Len(old) + 1
            /\ new[Len(new)] = hAdd.result
            /\ hAdd.result.role = hAdd.role
            /\ hAdd.result.content = hAdd.content
            /\ \A i \in DOMAIN old : new[i] = old[i]
            /\ hSession.session_id = hAdd.before.session_id
            /\ hSession.created_at = hAdd.before.created_at

\* The assistant reply was appended to a session that held messages.
C21_Witness ==
    /\ Added /\ hPc = "done"
    /\ hAdd.role = "assistant"
    /\ Len(hAdd.before.messages) >= 3
    /\ Len(hSession.messages) = Len(hLoaded.messages) + 2

\* The prompt build_prompt is to return, section by section.
PromptSections ==
    LET n == Len(hResults)
        persona == <<[sec |-> "persona", character |-> hCharacter]>>
        language == <<[sec |-> "language"]>>
        entry(k) == [sec |-> "entry", source |-> hResults[k].metadata.source,
                     text |-> hResults[k].text]
        context == <<[sec |-> "context_header"]>>
                     \o [i \in 1..(2 * n - 1) |->
                           IF i % 2 = 1 THEN entry((i + 1) \div 2) ELSE [sec |-> "blank"]]
                     \o <<[sec |-> "context_footer", name |-> hCharacter.name]>>
        plain == <<[sec |-> "in_character", name |-> hCharacter.name]>>
    IN  persona \o language \o (IF n > 0 THEN context ELSE plain)

\* build_prompt has returned.
PromptBuilt == hPc # "prompt"

\* C26: build_prompt composes its sections in a fixed order: the persona
\* system prompt, the language-mirroring instruction, then the RELEVANT
\* CONTEXT block with one "[From <source>]: <text>" entry per result in the
\* order of results, separated by blank lines, when results is non-empty, and
\* the plain in-character instruction when it is empty; the prompt is a
\* function of the character and the results alone.
C26_BuildPromptOrder ==
    PromptBuilt =>
        /\ hPrompt = PromptSections
        /\ hPrompt = build_prompt(hCharacter, Str("other", 5), hResults)

\* A prompt was built from two different results.
C26_Witness ==
    /\ PromptBuilt
    /\ Len(hResults) = 2 /\ hResults[1] # hResults[2]
    /\ hResults[1].metadata.source # hResults[2].metadata.source

\* llm_service.chat has been called.
LlmCalled == hPc \in {"add_reply", "done"}

\* C27: the message list sent to the LLM provider is the last min(20, n)
\* messages of the session's n prior messages, in their order, followed by
\* the new user message as the final element; it never holds more than 21
\* messages and never the assistant reply being generated.
C27_LlmMessages ==
    LlmCalled =>
        LET n == Len(hLoaded.messages)
            k == IF n < 20 THEN n ELSE 20
        IN  /\ Len(hLlm) = k + 1
            /\ \A i \in 1..k :
                    hLlm[i] = [role |-> hLoaded.messages[n - k + i].role,
                               content |-> hLoaded.messages[n - k + i].content]
            /\ hLlm[k + 1] = [role |-> "user", content |-> hMessage]
            /\ Len(hLlm) <= 21
            /\ \A i \in DOMAIN hLlm :
                    ~(hLlm[i].role = "assistant" /\ hLlm[i].content = hReply)

\* The provider was called for a session with more than 20 prior messages.
C27_Witness ==
    /\ hPc = "done"
    /\ Len(hLoaded.messages) > 20
    /\ Len(hLlm) = 21

(***************************************************************************)
(* Claims about the session store, checked under Spec.                     *)
(***************************************************************************)
\* A request has the file of session id open for writing.
Writing(id) ==
    \E q \in Procs : pPc[q] = "write" /\ pSess[q].session_id = id /\ ~pUnlinked[q]

\* The handler of p failed at a read of a session file.
StoreFailure(p) ==
    /\ pRes[p].status = "error"
    /\ pRes[p].kind \in {"FileNotFoundError", "JSONDecodeError"}

\* C4: save is atomic for concurrent readers: no load (from get_session or
\* get_or_create) and no list_all, reading a session file while another
\* request's save of it is in progress, finds a truncated or partly written
\* record, which it cannot decode.
C4_SaveAtomicForReaders ==
    \A p \in Procs :
        pRes[p].status = "error" =>
            ~(pRes[p].kind = "JSONDecodeError" /\ pRes[p].duringSave)

\* C5: last writer wins: once a chat request that obtained its session before
\* another request's save of the same id has completed its own save, and no
\* save of that id is in progress, the persisted record is exactly the session
\* that later save wrote.
C5_LastWriterWins ==
    \A id \in SessionIds :
        (/\ lastSave[id].saved /\ lastSave[id].stale
         /\ ~lastSave[id].unlinked /\ ~lastSave[id].deleted
         /\ ~Writing(id))
        => files[get_session_path(id)] = File(SavedText(lastSave[id].session))

\* Request p takes a step.
StepOf(p) == pPc'[p] # pPc[p] \/ pPos'[p] # pPos[p]

\* The next file operation of p's handler.
StoreStep(p) ==
    \/ LoadRead(p) \/ SaveFlush(p) \/ SaveClose(p)
    \/ DeleteUnlink(p) \/ ListRead(p) \/ ListReturn(p)

\* A step of a request on session id A leaves the file of every other id as it is.
FrameOfStep ==
    \A p \in Procs, B \in SessionIds :
        (StepOf(p) /\ pId[p] # B) =>
            files'[get_session_path(B)] = files[get_session_path(B)]

\* Request q is in the middle of a save or delete of an id other than p's.
BusyElsewhere(p, q) ==
    q # p /\ pPc[q] \in {"write", "unlink"} /\ pId[p] # NoId /\ pId[q] # pId[p]

\* A request on id B can take its next file operation while a save or delete
\* of another id is in progress, and it fails at the store only when requests
\* on B itself overlapped (it, or the latest save of B).
NeverBlockedOrFailedByOthers ==
    \A p \in Procs :
        /\ (/\ pPc[p] \in {"read", "write", "unlink"}
            /\ \E q \in Procs : BusyElsewhere(p, q)) => ENABLED StoreStep(p)
        /\ (StoreFailure(p) /\ pOp[p] # "list_sessions") =>
              \/ pShared[p]
              \/ lastSave[pId[p]].saved /\ ~lastSave[pId[p]].clean

\* C6: operations on different session ids do not interfere: a save, delete or
\* chat step for id A leaves the persisted record of every id B # A unchanged,
\* and no operation on B is blocked or made to fail by it.
C6_DifferentIdsDoNotInterfere ==
    [][FrameOfStep]_vars /\ []NeverBlockedOrFailedByOthers

\* A chat on one id has saved while a request on another id, sharing its id
\* with nobody, is between its file operations on an existing record.
C6_Witness ==
    \E p \in Procs, q \in Procs :
        /\ pOp[p] = "chat" /\ pPc[p] = "done" /\ pRes[p].status = "ok"
        /\ pId[q] \notin {NoId, pId[p]}
        /\ pPc[q] \in {"read", "write", "unlink"} /\ ~pShared[q]
        /\ lastSave[pId[q]].saved

\* C20: get_or_create(id) returns the persisted session (same session_id,
\* created_at and messages) when id is given and a record for it exists; in
\* every other case (id absent, or given without a record) it returns a new
\* session with no messages and a new id that no persisted session has.
C20_GetOrCreate ==
    gPc = "done" =>
        IF gArg # NoId /\ gArg \in PersistedIds(gFiles)
        THEN /\ gRet.session_id = gArg
             /\ SavedText(gRet) = gFiles[get_session_path(gArg)].text
             /\ gRet \in PersistedSessions(gArg)
        ELSE /\ gRet.messages = <<>>
             /\ gRet.session_id \notin PersistedIds(gFiles) \cup {NoId}
             /\ gRet.created_at = gNow

\* get_or_create returned a persisted session that has messages.
C20_Witness ==
    /\ gPc = "done" /\ gArg # NoId /\ gArg \in PersistedIds(gFiles)
    /\ Len(gRet.messages) = 2
    /\ gRet.created_at # gNow

\* The query vector has another length than the stored vectors.
Mismatch == dStoredDim # 0 /\ dEmbedding # NoEmbedding /\ dEmbedding.dim # dStoredDim

\* What does hold of a mismatched query: the call ends with an exception.
MismatchFails == (dPc = "done" /\ Mismatch) => IsRaised(dOutcome)

\* C25: a query whose vector dimensionality differs from that of the stored
\* vectors fails with an error, and the dimensionality is checked before the
\* query is handed to the storage engine.
C25_ShapeCheckedBeforeEngine ==
    /\ MismatchFails
    /\ Mismatch => ~dHanded

\* The file of the id asked for exists and is not a text save leaves.
DamagedRecord ==
    /\ gFiles[get_session_path(gArg)].exists
    /\ gFiles[get_session_path(gArg)].text \notin SavedTexts(gArg)

\* The record is no JSON text, or lacks session_id or created_at.
Unreadable ==
    LET text == gFiles[get_session_path(gArg)].text IN
        \/ ~JsonValid(text)
        \/ ~({"session_id", "created_at"} \subseteq DOMAIN JsonLoad(text))

\* What does hold of load on a damaged record: it raises when the record is
\* unreadable, and never answers not-found.
LoadOfUnreadable ==
    (gPc = "done" /\ DamagedRecord) =>
        /\ Unreadable => IsRaised(gRet)
        /\ gRet # NoSession

\* C24: load, and so get_or_create, on a malformed persisted record, a record
\* that lacks the messages field included, fails with an error that differs
\* from the not-found result; it never returns an empty session and never
\* not-found for a record that exists but is damaged.
C24_LoadOfDamagedFails ==
    (gPc = "done" /\ DamagedRecord) => IsRaised(gRet)

\* list_all has returned its summaries.
Listed(p) == pOp[p] = "list_sessions" /\ pPc[p] = "done" /\ pRes[p].status = "ok"

\* One summary per session file, with the id, creation time and number of
\* messages of the record in it.
OneSummaryPerSession(out) ==
    /\ Len(out) = Cardinality(PersistedIds(files))
    /\ \A id \in PersistedIds(files) :
          \E i \in DOMAIN out :
              /\ out[i].session_id = id
              /\ out[i].created_at = files[get_session_path(id)].text[1].created_at
              /\ out[i].message_count = Len(files[get_session_path(id)].text) - 2

\* The summaries are in the order of the created_at texts, greatest first.
SortedByText(out) ==
    \A i \in DOMAIN out, j \in DOMAIN out :
        i < j => IsoGE(isoformat(out[i].created_at), isoformat(out[j].created_at))

\* The summaries are in the order of creation, newest first.
NewestFirst(out) ==
    \A i \in DOMAIN out, j \in DOMAIN out :
        i < j => out[i].created_at >= out[j].created_at

\* What does hold of list_all: one summary per session, sorted as texts.
ListAllSummaries ==
    \A p \in Procs :
        Listed(p) => OneSummaryPerSession(pRes[p].sessions) /\ SortedByText(pRes[p].sessions)

\* C22: list_all returns exactly one summary per persisted session, each with
\* message_count equal to the number of messages of the persisted record,
\* and the summaries are ordered by created_at descending, newest first.
C22_ListAllNewestFirst ==
    \A p \in Procs :
        Listed(p) => OneSummaryPerSession(pRes[p].sessions) /\ NewestFirst(pRes[p].sessions)

\* The chat request of p ended because retrieval or the provider call failed.
ChatFailed(p) ==
    /\ pOp[p] = "chat" /\ pPc[p] = "done"
    /\ pRes[p].status = "error" /\ pRes[p].kind = "ProviderError"

\* The steps of a chat request up to the provider call, and its failure,
\* change no file.
ChatWritesNothingBeforeSave ==
    \A p \in Procs :
        (/\ pOp'[p] = "chat"
         /\ pPc[p] \in {"idle", "read", "llm"}
         /\ pPc'[p] \in {"read", "llm", "done"}
         /\ pPc'[p] # pPc[p])
        => files' = files

\* After a failed chat that no other request on its session overlapped, the
\* record is the session as loaded, without the user message; a session
\* created for the request has no record.
NothingPersisted ==
    \A p \in Procs :
        (ChatFailed(p) /\ ~pShared[p]) =>
            LET f == files[get_session_path(pId[p])] IN
                IF pSess[p].messages = <<>>
                THEN ~f.exists
                ELSE f = File(SavedText(pSess[p]))

\* C28: if retrieval or the LLM provider call fails during a chat request,
\* nothing is persisted: the session records and their contents are as before
\* the request, the user message is not saved and a session created for the
\* request does not appear among the records.
C28_FailedChatPersistsNothing ==
    [][ChatWritesNothingBeforeSave]_vars /\ []NothingPersisted

\* A chat on a persisted session failed after another request had saved.
C28_Witness ==
    \E p \in Procs :
        /\ ChatFailed(p) /\ ~pShared[p]
        /\ Len(pSess[p].messages) >= 4
        /\ files[get_session_path(pId[p])].exists

\* The characters of message content in the file at path.
ContentChars(path) == TextSize(files[path].text, 0, Len(files[path].text))

\* Every session file, at rest or being written, holds at most 32,000
\* characters of message content.
FilesWithinBudget == \A path \in Paths : ContentChars(path) <= 32000

\* The session the chat handler passes to save: within the budget, and when
\* nothing had to be trimmed the loaded messages, the user message, the reply.
SavedSessionIsTrimmedTurn ==
    \A p \in Procs :
        (pPc[p] = "llm" /\ pPc'[p] = "write") =>
            LET old == pSess[p].messages
                new == pSess'[p].messages
                n == Len(new)
            IN  /\ SumChars(new) <= 32000
                /\ n >= 2 =>
                      /\ new[n].role = "assistant" /\ new[n - 1].role = "user"
                      /\ new[n - 1].content \in UserMessages
                /\ SumChars(old) + SumChars(SubSeq(new, n - 1, n)) <= 32000 =>
                      /\ n = Len(old) + 2
                      /\ SubSeq(new, 1, Len(old)) = old

\* A completed save that nothing overlapped left its session in the file.
SavedRecordIsSession ==
    \A p \in Procs :
        (pOp[p] = "chat" /\ pPc[p] = "done" /\ pRes[p].status = "ok" /\ ~pShared[p]) =>
            files[get_session_path(pId[p])] = File(SavedText(pSess[p]))

\* C29: after any sequence of chat requests, sequential or interleaved, every
\* session record persisted by the chat handler has at most 32,000 characters
\* of message content, trim running between the last append and save; when
\* nothing needs trimming the persisted messages are the loaded messages,
\* then the user message, then the assistant reply.
C29_PersistedWithinBudget ==
    /\ []FilesWithinBudget
    /\ [][SavedSessionIsTrimmedTurn]_vars
    /\ []SavedRecordIsSession

\* A chat turn that had to evict messages has been saved.
C29_Witness ==
    \E p \in Procs :
        /\ pOp[p] = "chat" /\ pPc[p] = "done" /\ pRes[p].status = "ok"
        /\ files[get_session_path(pId[p])] = File(SavedText(pSess[p]))
        /\ Len(pSess[p].messages) = 3
        /\ ContentChars(get_session_path(pId[p])) > 16000

\* delete_session of p has come to its end.
DeleteEnded(p) == pOp[p] = "delete_session" /\ pPc[p] = "done"

\* A delete of an id without a record answers not-found and changes no file.
DeleteOfMissing ==
    \A p \in Procs :
        (/\ pPc[p] = "idle" /\ pOp'[p] = "delete_session"
         /\ ~files[get_session_path(pId'[p])].exists)
        => pRes'[p] = [status |-> "not_found"] /\ files' = files

\* A delete ends with deleted or not-found, the record gone.
DeleteNeverRaises ==
    \A p \in Procs :
        DeleteEnded(p) =>
            /\ pRes[p].status \in {"deleted", "not_found"}
            /\ ~files[get_session_path(pId[p])].exists

\* What does hold of delete: it raises only when another request operated on
\* the same id meanwhile, and the record is gone when it ends.
DeleteAlone ==
    \A p \in Procs :
        DeleteEnded(p) =>
            /\ ~pShared[p] => pRes[p].status \in {"deleted", "not_found"}
            /\ ~files[get_session_path(pId[p])].exists

\* C23: delete(id) returns true exactly when a record for id existed, and
\* removes it; without a record it returns false, a non-fatal result, and
\* leaves the store unchanged; also when two deletes of the same id run
\* concurrently, neither raises.
C23_DeleteNeverRaises ==
    [][DeleteOfMissing]_vars /\ []DeleteNeverRaises

\* get_session of p has returned, no other request operated on its id
\* meanwhile, and the latest save of the id overlapped no other request on it.
LoadedAfterSequence(p) ==
    /\ pOp[p] = "get_session" /\ pPc[p] = "done" /\ ~pShared[p]
    /\ lastSave[pId[p]].saved => lastSave[pId[p]].clean

\* C7 as stated: after any sequence of saves and deletes, load(id) returns a
\* session identical to the one passed to the most recent save for id.
C7_LoadReturnsLastSave ==
    \A p \in Procs :
        (LoadedAfterSequence(p) /\ lastSave[pId[p]].saved) =>
            pRes[p] = [status |-> "ok", session |-> lastSave[pId[p]].session]

\* C7: after any sequence of saves and deletes, load(id) returns a session
\* identical (session_id, created_at, every message's role, content and
\* timestamp, in order) to the one passed to the most recent save for id,
\* unless a delete of id followed that save or id was never saved: then load
\* returns not-found.
C7_LoadReturnsLastSaveUnlessDeleted ==
    \A p \in Procs :
        LoadedAfterSequence(p) =>
            IF lastSave[pId[p]].saved /\ ~lastSave[pId[p]].deleted
            THEN pRes[p] = [status |-> "ok", session |-> lastSave[pId[p]].session]
            ELSE pRes[p] = [status |-> "not_found"]

\* load returned the session of a save that overwrote an earlier one.
C7_Witness ==
    \E p \in Procs :
        /\ LoadedAfterSequence(p)
        /\ lastSave[pId[p]].saved /\ ~lastSave[pId[p]].deleted
        /\ Len(lastSave[pId[p]].session.messages) >= 4
        /\ pRes[p].status = "ok"
        /\ pRes[p].session = lastSave[pId[p]].session

====
